---- MODULE Spec2Model ----
(***************************************************************************)
(* The incremental reconciliation engine of actions/format: bill merge,    *)
(* vote/event placeholders, the event-to-bill linking pipeline and the     *)
(* orphan reconciliation pass, as a state machine over the output tree.    *)
(*                                                                         *)
(* Text is a sequence of tokens (an f-string is a concatenation), a JSON   *)
(* object is a record, a dict with a varying key set is a set of           *)
(* <<key, value>> pairs, a directory is a function from file names to      *)
(* contents.  None, a missing key and the empty string are all <<>>: the   *)
(* code only ever tests them with "if not value".                          *)
(***************************************************************************)
EXTENDS Integers, Sequences, FiniteSets, TLC

None == <<>>

\* ------------------------------------------------------------------ bounds
\* longest action list drawn for the pure merge functions
MaxLen == 2

\* ------------------------------------------------------------ dictionaries
DictKeys(d) == {kv[1] : kv \in d}

DictGet(d, k) == IF k \in DictKeys(d) THEN (CHOOSE kv \in d : kv[1] = k)[2] ELSE None

\* d[k] = v
DictSet(d, k, v) == {kv \in d : kv[1] # k} \cup {<<k, v>>}

\* an update that keeps the values d already has
DictUpdate_setdefault(d, other) == d \cup {kv \in other : kv[1] \notin DictKeys(d)}

\* d.update(other)
DictUpdate(d, other) == {kv \in d : kv[1] \notin DictKeys(other)} \cup other

\* ------------------------------------------------------------------- text
\* sequences of length at most n over S
SeqsUpTo(S, n) == UNION {[1..k -> S] : k \in 0..n}

\* the largest member of a finite set of naturals, 0 for the empty set
Max(S) == IF S = {} THEN 0 ELSE CHOOSE m \in S : \A n \in S : n <= m

\* --------------------------------------------------- processing_tracker.py
\* an identifier that leaves the date out
create_action_identifier_description(action) == action.description

\* f"{description}|{date}"
create_action_identifier(action) == action.description \o <<"|">> \o action.date

find_new_actions(existing_actions, incoming_actions) ==
    LET existing_ids == {create_action_identifier(existing_actions[j]) :
                            j \in 1..Len(existing_actions)}
    IN SelectSeq(incoming_actions,
                 LAMBDA action : create_action_identifier(action) \notin existing_ids)

\* a merge that forgets the persisted copies
merge_actions_incoming(existing_actions, incoming_actions) == incoming_actions

\* existing_map keeps, for an identifier, the last persisted action carrying it
merge_actions(existing_actions, incoming_actions) ==
    LET existing_map(action_id) ==
            Max({j \in 1..Len(existing_actions) :
                    create_action_identifier(existing_actions[j]) = action_id})
    IN [i \in 1..Len(incoming_actions) |->
            LET action == incoming_actions[i]
                hit == existing_map(create_action_identifier(action))
            IN IF hit # 0 THEN existing_actions[hit] ELSE action]

\* strftime("%Y-%m-%dT%H:%M:%SZ") of the UTC clock, read in whole seconds
get_current_timestamp(now) == <<"utc", now>>

add_processing_timestamp(action, field_name, now) ==
    [action EXCEPT !._processing = DictSet(@, field_name, get_current_timestamp(now))]


\* ------------------------------------------------------------------ files
\* a directory is a function from names to contents; <<>> is the empty one
Put(dir, name, content) ==
    [x \in DOMAIN dir \cup {name} |-> IF x = name THEN content ELSE dir[x]]

Del(dir, name) == [x \in DOMAIN dir \ {name} |-> dir[x]]

\* dict.get(key): None for a missing key
Get(data, key) == IF key \in DOMAIN data THEN data[key] ELSE None

Range(s) == {s[i] : i \in DOMAIN s}

\* ----------------------------------------------------------------- numbers
\* the digits a date is written with, in order
Digits == <<"0", "1", "2", "3", "4", "5">>

Val(tok) == (CHOOSE i \in DOMAIN Digits : Digits[i] = tok) - 1

Tok(n) == Digits[n + 1]

\* ------------------------------------------------------------ file_utils.py
TRACKER_CLASSIFICATIONS == {"introduction", "passage", "executive-receipt", "became-law"}

\* "YYYY-MM-DD" is <<"iso", day>>, "YYYY-MM-DDTHH:MM:SS" is <<"iso", day, "T", time>>
IsIsoDate(s) == Len(s) = 2 /\ s[1] = "iso" /\ s[2] \in Range(Digits)

IsIsoDateTime(s) ==
    Len(s) = 4 /\ s[1] = "iso" /\ s[2] \in Range(Digits) /\ s[3] = "T" /\ s[4] \in Range(Digits)

\* datetime.fromisoformat(date_str).strftime("%Y%m%dT%H%M%SZ"), None when it raises
format_timestamp(date_str) ==
    IF IsIsoDate(date_str) THEN <<"cmp", date_str[2], "T", "0", "Z">>
    ELSE IF IsIsoDateTime(date_str) THEN <<"cmp", date_str[2], "T", date_str[4], "Z">>
    ELSE None

\* str() of a value inside an f-string
Str(text) == IF text = None THEN <<"None">> ELSE text

Lower(c) == IF c = "P" THEN "p" ELSE IF c = "I" THEN "i" ELSE c

IsSpace(c) == c = " "

\* \w: letters, digits and the underscore
IsWord(c) == c \in {"i", "p", "I", "P", "q", "_", "pass", "fail", "n", "m"} \cup Range(Digits)

RECURSIVE Collapse(_)
\* re.sub(r"\s+", "_", text)
Collapse(text) ==
    IF text = <<>> THEN <<>>
    ELSE IF IsSpace(Head(text))
         THEN IF Len(text) > 1 /\ IsSpace(text[2]) THEN Collapse(Tail(text))
              ELSE <<"_">> \o Collapse(Tail(text))
         ELSE <<Head(text)>> \o Collapse(Tail(text))

RECURSIVE Strip(_)
\* text.strip("_")
Strip(text) ==
    IF text = <<>> THEN <<>>
    ELSE IF Head(text) = "_" THEN Strip(Tail(text))
    ELSE IF text[Len(text)] = "_" THEN Strip(SubSeq(text, 1, Len(text) - 1))
    ELSE text

SlugMaxLength == 100

slugify(text) ==
    LET lowered == [i \in DOMAIN text |-> Lower(text[i])]
        kept == SelectSeq(lowered, LAMBDA c : IsWord(c) \/ IsSpace(c))
        slug == Strip(Collapse(kept))
    IN SubSeq(slug, 1, IF Len(slug) < SlugMaxLength THEN Len(slug) ELSE SlugMaxLength)

\* '~{"classification": "lower"}' is <<"~", "classification", "lower">>
org_classification(org_id) ==
    IF "classification" \in Range(org_id)
    THEN IF Len(org_id) = 3 /\ org_id[1] = "~" /\ org_id[2] = "classification"
         THEN org_id[3] ELSE "unknown"
    ELSE "unknown"

\* the name write_action_logs gives the log file of an action
action_log_filename(action) ==
    LET date == Get(action, "date")
        timestamp == IF date # None THEN Str(format_timestamp(date)) ELSE <<"unknown">>
        classifications == Get(action, "classification")
    IN IF classifications # <<>> /\ classifications[1] \in TRACKER_CLASSIFICATIONS
       THEN timestamp \o <<".classification.", classifications[1], ".",
                           org_classification(Get(action, "organization_id")), ".json">>
       ELSE timestamp \o <<"_">> \o slugify(Get(action, "description")) \o <<".json">>

RECURSIVE write_action_logs(_, _, _, _)
\* one file per action, in list order; logs is the tree's log files by <<folder, name>>
write_action_logs(logs, actions, bill_identifier, log_folder) ==
    IF actions = <<>> THEN logs
    ELSE write_action_logs(
            Put(logs, <<log_folder, action_log_filename(Head(actions))>>,
                [action |-> Head(actions), bill_id |-> bill_identifier]),
            Tail(actions), bill_identifier, log_folder)

vote_event_log_filename(vote_event) ==
    LET date == Get(vote_event, "start_date")
        timestamp == IF date # None THEN Str(format_timestamp(date)) ELSE <<"unknown">>
        result == Get(vote_event, "result")
    IN IF result = <<"pass">>
       THEN timestamp \o <<".vote_event.pass.",
                           org_classification(Get(vote_event, "organization")), ".json">>
       ELSE timestamp \o <<"_vote_event_">> \o slugify(result) \o <<".json">>

\* the tokens that hold a "/"
HasSeparator(c) == c \in {"house/senate"}

\* open(output_file, "w") of a name that holds a "/" raises FileNotFoundError:
\* the name then points into a directory that nobody has made
open_raises(filename) == \E i \in DOMAIN filename : HasSeparator(filename[i])

write_vote_event_log(logs, vote_event, log_folder) ==
    Put(logs, <<log_folder, vote_event_log_filename(vote_event)>>, vote_event)

\* the error sink: errors is the tree's error files by <<category, filename>>
record_error_file(errors, category, filename, data, original_filename) ==
    LET existing_names == {Get(errors[k], "name") : k \in {k \in DOMAIN errors : k[1] = category}}
                            \ {None}
    IN IF Get(data, "name") \in existing_names THEN errors
       ELSE Put(errors, <<category, filename>>,
                IF original_filename # None
                THEN [x \in DOMAIN data \cup {"_original_filename"} |->
                        IF x = "_original_filename" THEN original_filename ELSE data[x]]
                ELSE data)

\* -------------------------------------------------------------- path_utils.py
\* sessions/<session_id>/bills/<bill_identifier without spaces>
build_bill_path(session_id, bill_identifier) ==
    <<session_id, SelectSeq(bill_identifier, LAMBDA c : c # " ")>>

\* data.get("legislative_session", "unknown-session")
session_or_default(data) ==
    IF Get(data, "legislative_session") = None THEN <<"unknown-session">>
    ELSE Get(data, "legislative_session")

\* ------------------------------------------------------- timestamp_tracker.py
\* a datetime is <<day, time>>; datetime(1900, 1, 1) is the first of them
get_default_timestamps == [vote_events |-> <<0, 0>>, events |-> <<0, 0>>]

\* current_dt > latest_timestamp_dt
Later(a, b) == a[1] > b[1] \/ (a[1] = b[1] /\ a[2] > b[2])

\* strptime of the text without its trailing Z, dashed or compact; None when it raises
to_dt_obj(ts_str) ==
    LET text == IF ts_str # <<>> /\ ts_str[Len(ts_str)] = "Z"
                THEN SubSeq(ts_str, 1, Len(ts_str) - 1) ELSE ts_str
    IN IF IsIsoDateTime(text) THEN <<Val(text[2]), Val(text[4])>>
       ELSE IF Len(text) = 4 /\ text[1] = "cmp" /\ text[3] = "T"
            THEN <<Val(text[2]), Val(text[4])>>
       ELSE None

\* a ledger that keeps the timestamp of the record handled last
update_latest_timestamp_last(current_dt, existing_dt) ==
    IF current_dt = None THEN existing_dt ELSE current_dt

update_latest_timestamp(current_dt, existing_dt) ==
    IF current_dt = None THEN existing_dt
    ELSE IF existing_dt = None \/ Later(current_dt, existing_dt) THEN current_dt
    ELSE existing_dt

\* the text written to latest_timestamp_seen.txt: strftime("%Y-%m-%dT%H:%M:%S")
ledger_text(dt) == <<"iso", Tok(dt[1]), "T", Tok(dt[2])>>

\* --------------------------------------------------------- the output tree
\* metadata, placeholder: bill folder -> the JSON of metadata.json / placeholder.json
\* dirs: the bill folders whose logs/ and files/ exist
\* logs: <<bill folder, name>> -> log file;  events: <<session, name>> -> event file
\* archive: name -> archived event;  errors: <<category, name>> -> error file
\* ledger: latest_timestamp_seen.txt, a dict, {} when the file is absent
\* tracking: orphaned_placeholders_tracking.json, bill id -> record, <<>> when absent
\* bill_session_mapping: bill_session_mapping.json, bill id -> session_meta
EmptyTree ==
    [metadata |-> <<>>, placeholder |-> <<>>, dirs |-> {}, logs |-> <<>>, events |-> <<>>,
     archive |-> <<>>, errors |-> <<>>, ledger |-> {}, tracking |-> <<>>,
     bill_session_mapping |-> <<>>, sessions |-> <<>>]

\* .windycivi/sessions.json, present and unchanged throughout
SESSION_MAPPING == {<<"s1">>, <<"s2">>}

\* a repository whose .windycivi/sessions.json lists those sessions; the file
\* is <<>> when it is absent and <<its content>> otherwise
SeededTree == [EmptyTree EXCEPT !.sessions = <<SESSION_MAPPING>>]

\* ---------------------------------------------- processing_tracker.py (files)
\* <<>> for None, <<metadata>> when metadata.json is there
load_existing_metadata(fs, bill_data) ==
    LET bill_identifier == Get(bill_data, "identifier")
        bill_folder == build_bill_path(session_or_default(bill_data), bill_identifier)
    IN IF bill_identifier = None THEN <<>>
       ELSE IF bill_folder \notin DOMAIN fs.metadata THEN <<>>
       ELSE <<fs.metadata[bill_folder]>>

\* a pre-filter that never skips
compare_action_counts_always(existing_metadata, incoming_data) ==
    <<TRUE, 0, Len(Get(incoming_data, "actions"))>>

\* a handler that makes no folder of its own
make_bill_folders_none(dirs, save_path) == dirs

\* (save_path / "logs").mkdir(parents=True, exist_ok=True), and the same for
\* files/: dirs is the set of bill folders whose logs/ and files/ exist
make_bill_folders(dirs, save_path) == dirs \cup {save_path}

\* <<should_process, existing_count, incoming_count>>
compare_action_counts(existing_metadata, incoming_data) ==
    LET incoming_count == Len(Get(incoming_data, "actions"))
    IN IF existing_metadata = <<>> THEN <<TRUE, 0, incoming_count>>
       ELSE LET existing_count == Len(Get(existing_metadata[1], "actions"))
            IN <<existing_count # incoming_count, existing_count, incoming_count>>

\* ------------------------------------------------------------ handlers/bill.py
\* the in-place stamping of the new actions, seen through the incoming list
stamp_new_actions(actions, new_actions, now) ==
    [i \in DOMAIN actions |->
        IF actions[i] \in Range(new_actions)
        THEN add_processing_timestamp(actions[i], "log_file_created", now)
        ELSE actions[i]]

\* [fs, ok]: the tree after the call and the value returned
handle_bill(fs, data, filename, now) ==
    LET bill_identifier == Get(data, "identifier") IN
    IF bill_identifier = None
    THEN [fs |-> [fs EXCEPT !.errors = record_error_file(@,
                        "from_handle_bill_missing_identifier", filename, data, filename)],
          ok |-> FALSE]
    ELSE
    LET save_path == build_bill_path(session_or_default(data), bill_identifier)
        existing_metadata == load_existing_metadata(fs, data)
        actions == Get(data, "actions")
        existing_actions == Get(existing_metadata[1], "actions")
        new_actions == IF existing_metadata # <<>>
                       THEN find_new_actions(existing_actions, actions)
                       ELSE actions
        stamped == stamp_new_actions(actions, new_actions, now)
        saved_actions == IF existing_metadata # <<>>
                         THEN merge_actions(existing_actions, stamped)
                         ELSE stamped
        processing == IF existing_metadata # <<>>
                      THEN DictSet(DictUpdate(Get(data, "_processing"),
                                              Get(existing_metadata[1], "_processing")),
                                   "logs_latest_update", get_current_timestamp(now))
                      ELSE {<<"logs_latest_update", get_current_timestamp(now)>>}
        saved == [data EXCEPT !.actions = saved_actions, !._processing = processing]
    IN [fs |-> [fs EXCEPT
                    !.dirs = make_bill_folders(@, save_path),
                    !.logs = write_action_logs(@, new_actions, bill_identifier, save_path),
                    !.metadata = Put(@, save_path, saved)],
        ok |-> TRUE]

\* ------------------------------------------------------ handlers/vote_event.py
\* a vote handler that gives up when the bill it refers to has no record yet
handle_vote_event_needs_bill(fs, lt, data, filename) ==
    LET save_path == build_bill_path(session_or_default(data), Get(data, "bill_identifier"))
    IN IF save_path \in DOMAIN fs.metadata
       THEN [fs |-> [fs EXCEPT !.logs = write_vote_event_log(@, data, save_path)],
             lt |-> lt, ok |-> TRUE, raised |-> FALSE]
       ELSE [fs |-> fs, lt |-> lt, ok |-> FALSE, raised |-> FALSE]

\* [fs, lt, ok, raised]: the tree, the in-memory ledger, the value returned,
\* and whether the call ended in an exception instead of returning; the
\* handler catches none, so the open() of write_vote_event_log ends it
handle_vote_event(fs, lt, data, filename) ==
    LET referenced_bill_id == Get(data, "bill_identifier") IN
    IF referenced_bill_id = None
    THEN [fs |-> [fs EXCEPT !.errors = record_error_file(@,
                        "from_handle_vote_event_missing_bill_identifier",
                        filename, data, filename)],
          lt |-> lt, ok |-> FALSE, raised |-> FALSE]
    ELSE
    LET save_path == build_bill_path(session_or_default(data), referenced_bill_id)
        timestamp == format_timestamp(Get(data, "start_date"))
        current_dt == to_dt_obj(timestamp)
        raised == open_raises(vote_event_log_filename(data))
    IN [fs |-> [fs EXCEPT
                    !.dirs = make_bill_folders(@, save_path),
                    !.placeholder =
                        IF save_path \in DOMAIN @ THEN @
                        ELSE Put(@, save_path,
                                 [identifier |-> referenced_bill_id, placeholder |-> TRUE]),
                    !.logs = IF raised THEN @ ELSE write_vote_event_log(@, data, save_path)],
        lt |-> [lt EXCEPT !.vote_events = update_latest_timestamp(current_dt, @)],
        ok |-> ~raised, raised |-> raised]

\* ----------------------------------------------------------- handlers/event.py
\* re.sub(r"[^\w]+", "_", name.lower()).strip("_")[:40]
EventNameMaxLength == 40

RECURSIVE NonWordRuns(_)
NonWordRuns(text) ==
    IF text = <<>> THEN <<>>
    ELSE IF ~IsWord(Head(text))
         THEN IF Len(text) > 1 /\ ~IsWord(text[2]) THEN NonWordRuns(Tail(text))
              ELSE <<"_">> \o NonWordRuns(Tail(text))
         ELSE <<Head(text)>> \o NonWordRuns(Tail(text))

clean_event_name(name) ==
    LET cleaned == Strip(NonWordRuns([i \in DOMAIN name |-> Lower(name[i])]))
    IN SubSeq(cleaned, 1,
              IF Len(cleaned) < EventNameMaxLength THEN Len(cleaned) ELSE EventNameMaxLength)

\* a handler that advances the ledger before it looks for the bill identifier
handle_event_stamps_first(fs, lt, data, filename, session_id, referenced_bill_id) ==
    LET start_date == Get(data, "start_date") IN
    IF start_date = None
    THEN [fs |-> [fs EXCEPT !.errors = record_error_file(@,
                        "from_handle_event_missing_start_date", filename, data, filename)],
          lt |-> lt, ok |-> FALSE]
    ELSE IF referenced_bill_id = None /\ Get(data, "bill_identifier") = None
    THEN [fs |-> [fs EXCEPT !.errors = record_error_file(@,
                        "from_handle_event_missing_bill_identifier",
                        filename, data, filename)],
          lt |-> [lt EXCEPT !.events =
                    update_latest_timestamp(to_dt_obj(format_timestamp(start_date)), @)],
          ok |-> FALSE]
    ELSE
    LET timestamp == format_timestamp(start_date)
        current_dt == to_dt_obj(timestamp)
        event_name == IF "name" \in DOMAIN data THEN data.name ELSE <<"event">>
        short_name == clean_event_name(event_name)
        session == IF session_id = None THEN session_or_default(data) ELSE session_id
        output_file == Str(timestamp) \o <<"_">> \o short_name \o <<".json">>
    IN [fs |-> [fs EXCEPT !.events = Put(@, <<session, output_file>>, data)],
        lt |-> [lt EXCEPT !.events = update_latest_timestamp(current_dt, @)],
        ok |-> TRUE]

\* session_id and referenced_bill_id are None unless the linking pipeline gives them
handle_event(fs, lt, data, filename, session_id, referenced_bill_id) ==
    LET start_date == Get(data, "start_date") IN
    IF start_date = None
    THEN [fs |-> [fs EXCEPT !.errors = record_error_file(@,
                        "from_handle_event_missing_start_date", filename, data, filename)],
          lt |-> lt, ok |-> FALSE]
    ELSE IF referenced_bill_id = None /\ Get(data, "bill_identifier") = None
    THEN [fs |-> [fs EXCEPT !.errors = record_error_file(@,
                        "from_handle_event_missing_bill_identifier",
                        filename, data, filename)],
          lt |-> lt, ok |-> FALSE]
    ELSE
    LET timestamp == format_timestamp(start_date)
        current_dt == to_dt_obj(timestamp)
        event_name == IF "name" \in DOMAIN data THEN data.name ELSE <<"event">>
        short_name == clean_event_name(event_name)
        session == IF session_id = None THEN session_or_default(data) ELSE session_id
        output_file == Str(timestamp) \o <<"_">> \o short_name \o <<".json">>
    IN [fs |-> [fs EXCEPT !.events = Put(@, <<session, output_file>>, data)],
        lt |-> [lt EXCEPT !.events = update_latest_timestamp(current_dt, @)],
        ok |-> TRUE]

\* ------------------------------------------------------------- file names
\* an input file name is <<prefix, stem, ".json">>; the substring facts the code tests
StartsWith == {<<"bill_", "bill">>, <<"bill_", "bill_">>,
               <<"vote_event_", "vote_event">>, <<"vote_event_", "vote_event_">>,
               <<"event_", "event">>, <<"event_", "event_">>,
               <<"event_bill_", "event">>, <<"event_bill_", "event_">>,
               <<"jurisdiction_", "jurisdiction_">>}

Contains == {<<"bill_", "bill_">>, <<"vote_event_", "vote_event_">>,
             <<"vote_event_", "event_">>, <<"event_", "event_">>,
             <<"event_bill_", "event_">>, <<"event_bill_", "bill_">>,
             <<".vote_event.pass.", "vote">>, <<".vote_event.pass.", "event">>,
             <<"_vote_event_", "vote">>, <<"_vote_event_", "event">>}

\* filename.startswith(prefix)
startswith(filename, prefix) == filename # <<>> /\ <<filename[1], prefix>> \in StartsWith

\* piece in filename
contains(filename, piece) == \E i \in DOMAIN filename : <<filename[i], piece>> \in Contains

\* ------------------------------------------- timestamp_tracker.py (the ledger)
read_latest_timestamps(fs) ==
    IF fs.ledger = {} THEN get_default_timestamps
    ELSE [vote_events |-> to_dt_obj(DictGet(fs.ledger, "vote_events")),
          events |-> to_dt_obj(DictGet(fs.ledger, "events"))]

write_latest_timestamp_file(fs, latest_timestamps) ==
    LET output == {<<k, ledger_text(latest_timestamps[k])>> :
                      k \in {k \in DOMAIN latest_timestamps : latest_timestamps[k] # None}}
    IN IF output = {} THEN fs ELSE [fs EXCEPT !.ledger = output]

\* a gate that also lets through a record as old as the ledger value
is_newer_than_latest_or_equal(errors, data, latest_timestamp_dt, category) ==
    LET date == Get(data, "start_date")
        missing == IF category = "events" THEN "from_is_newer_than_latest_missing_event_date"
                   ELSE "from_is_newer_than_latest_missing_vote_date"
        current_dt == to_dt_obj(format_timestamp(date))
    IN IF date = None
       THEN [errors |-> record_error_file(errors, missing, <<"unknown.json">>, data, None),
             newer |-> FALSE]
       ELSE [errors |-> errors,
             newer |-> current_dt # None /\ ~Later(latest_timestamp_dt, current_dt)]

\* [errors, newer]: the error sink after the call and the value returned
is_newer_than_latest(errors, data, latest_timestamp_dt, category) ==
    LET date == Get(data, "start_date")
        missing == IF category = "events" THEN "from_is_newer_than_latest_missing_event_date"
                   ELSE "from_is_newer_than_latest_missing_vote_date"
        current_dt == to_dt_obj(format_timestamp(date))
    IN IF date = None
       THEN [errors |-> record_error_file(errors, missing, <<"unknown.json">>, data, None),
             newer |-> FALSE]
       ELSE [errors |-> errors,
             newer |-> current_dt # None /\ Later(current_dt, latest_timestamp_dt)]

\* ------------------------------------------------- file_utils.py (sessions)
\* the identifiers of the sessions a jurisdiction record lists with a name, a
\* start date and an end date
extract_session_mapping(jurisdiction_data) == Get(jurisdiction_data, "legislative_sessions")

\* what the OpenStates API can answer: <<>> when the request fails, <<the
\* sessions>> otherwise
ApiAnswers == {<<>>, <<SESSION_MAPPING>>}

\* the tree ensure_session_mapping leaves; fetched is the API's answer
ensure_session_mapping(fs, input_folder, fetched) ==
    LET jurisdiction_files == SelectSeq(input_folder,
                                        LAMBDA f : startswith(f[1], "jurisdiction_"))
        extracted == IF jurisdiction_files # <<>>
                     THEN extract_session_mapping(jurisdiction_files[1][2]) ELSE {}
    IN IF extracted # {} THEN [fs EXCEPT !.sessions = <<extracted>>]
       ELSE IF fs.sessions # <<>> THEN fs
       ELSE IF fetched # <<>> THEN [fs EXCEPT !.sessions = fetched]
       ELSE fs

\* the mapping ensure_session_mapping returns: the content of sessions.json,
\* and {} when the file is absent and the API gave nothing to write
session_mapping(fs) == IF fs.sessions = <<>> THEN {} ELSE fs.sessions[1]

\* ------------------------------------------------------------------ io_utils.py
\* the category load_json_files filters a file by: the first test of its
\* if/elif chain that the file name passes
load_category(filename) ==
    IF startswith(filename, "bill") THEN "bill"
    ELSE IF startswith(filename, "vote_event") THEN "vote_event"
    ELSE IF startswith(filename, "event") THEN "event"
    ELSE "none"

\* the loop body of load_json_files: st is [fs, all_data]
load_json_file(st, filename, data, latest_timestamps) ==
    LET fs == st.fs
        gate == IF load_category(filename) = "bill"
                THEN [errors |-> fs.errors,
                      newer |-> compare_action_counts(load_existing_metadata(fs, data), data)[1]]
                ELSE IF load_category(filename) = "vote_event"
                THEN is_newer_than_latest(fs.errors, data, latest_timestamps.vote_events,
                                          "vote_events")
                ELSE IF load_category(filename) = "event"
                THEN is_newer_than_latest(fs.errors, data, latest_timestamps.events, "events")
                ELSE [errors |-> fs.errors, newer |-> TRUE]
        fs1 == [fs EXCEPT !.errors = gate.errors]
    IN IF ~gate.newer THEN [st EXCEPT !.fs = fs1]
       ELSE [fs |-> IF startswith(filename, "event_")
                    THEN [fs1 EXCEPT !.errors = Del(@, <<"missing_session", filename>>),
                                     !.archive = Put(@, filename, data)]
                    ELSE fs1,
             all_data |-> Append(st.all_data, <<filename, data>>)]

RECURSIVE load_json_files_from(_, _, _)
load_json_files_from(st, files, latest_timestamps) ==
    IF files = <<>> THEN st
    ELSE load_json_files_from(
            load_json_file(st, Head(files)[1], Head(files)[2], latest_timestamps),
            Tail(files), latest_timestamps)

\* [fs, all_data]; input_folder is the listing of the input directory, in os.listdir order
load_json_files(fs, input_folder, latest_timestamps) ==
    load_json_files_from([fs |-> fs, all_data |-> <<>>], input_folder, latest_timestamps)

\* ------------------------------------------------------------- process_utils.py
\* the handler route_handler calls: the first test of its if/elif chain that
\* the file name passes
handler_of(filename) ==
    IF contains(filename, "bill_") THEN "bill"
    ELSE IF contains(filename, "vote_event_") THEN "vote_event"
    ELSE IF contains(filename, "event_") THEN "event"
    ELSE "none"

\* [fs, lt, result]: result is "bill", "vote_event", "event" or "none", or
\* "raise" when the handler's exception passes through route_handler
route_handler(fs, lt, filename, data, now) ==
    IF handler_of(filename) = "bill"
    THEN LET r == handle_bill(fs, data, filename, now)
         IN [fs |-> r.fs, lt |-> lt, result |-> IF r.ok THEN "bill" ELSE "none"]
    ELSE IF handler_of(filename) = "vote_event"
    THEN LET r == handle_vote_event(fs, lt, data, filename)
         IN [fs |-> r.fs, lt |-> r.lt,
             result |-> IF r.raised THEN "raise" ELSE IF r.ok THEN "vote_event" ELSE "none"]
    ELSE IF handler_of(filename) = "event"
    THEN LET r == handle_event(fs, lt, data, filename, None, None)
         IN [fs |-> r.fs, lt |-> r.lt, result |-> IF r.ok THEN "event" ELSE "none"]
    ELSE [fs |-> fs, lt |-> lt, result |-> "none"]

\* the loop body of process_and_save
process_record(fs, lt, filename, data, now) ==
    LET session == Get(data, "legislative_session") IN
    IF session = None
    THEN [fs |-> [fs EXCEPT !.errors =
                    record_error_file(@, "missing_session", filename, data, None)],
          lt |-> lt, result |-> "none"]
    ELSE IF session \notin session_mapping(fs)
    THEN [fs |-> [fs EXCEPT !.errors =
                    record_error_file(@, "unknown_session", filename, data, None)],
          lt |-> lt, result |-> "none"]
    ELSE route_handler(fs, lt, filename, data, now)

\* ------------------------------------------- postprocessors/helpers (linking)
\* the keyword names of handle_event's parameters (handlers/event.py)
handle_event_parameters ==
    {"state_abbr", "data", "repo_root", "errors_folder", "filename", "latest_timestamps",
     "session_id", "referenced_bill_id"}

\* the keywords run_handle_event passes to it
run_handle_event_keywords ==
    {"STATE_ABBR", "data", "DATA_PROCESSED_FOLDER", "DATA_NOT_PROCESSED_FOLDER", "filename",
     "latest_timestamps", "session_id", "referenced_bill_id"}

\* a call with a keyword the callee does not have raises TypeError, which the
\* wrapper's "except Exception" swallows: the tree is then left as it was
run_handle_event(fs, event_data, session_id, bill_id, filename) ==
    IF run_handle_event_keywords \subseteq handle_event_parameters
    THEN handle_event(fs, get_default_timestamps, event_data, filename, session_id, bill_id).fs
    ELSE fs

\* the bill -> session index: one entry per bill folder that holds a bill record
load_bill_to_session_mapping(fs) ==
    [bill_id \in {p[2] : p \in DOMAIN fs.metadata} |->
        [session_id |-> (CHOOSE p \in DOMAIN fs.metadata : p[2] = bill_id)[1]]]

\* the bill identifiers an event record refers to, in the record's own order
extract_bill_ids_from_event(data) == Get(data, "related_bills")

\* ------------------------------------------ postprocessors/event_bill_linker.py
Min(S) == CHOOSE m \in S : \A n \in S : m <= n

\* the position of the first identifier with an index hit, 0 when none has one
first_hit(bill_ids, bill_to_session) ==
    LET hits == {i \in DOMAIN bill_ids : bill_ids[i] \in DOMAIN bill_to_session}
    IN IF hits = {} THEN 0 ELSE Min(hits)

\* the body of the hit branch
link_event(fs, event_file, data, bill_id, session_id) ==
    LET fs1 == run_handle_event(fs, data, session_id, bill_id, event_file)
    IN [fs1 EXCEPT !.archive = Del(@, event_file),
                   !.errors = Del(@, <<"missing_session", event_file>>)]

\* an archived record with no hit is unlinked all the same
link_pass_unlink_always(st, event_file, bill_ids, bill_to_session) ==
    LET hit == first_hit(bill_ids, bill_to_session) IN
    IF bill_ids = <<>> THEN st
    ELSE IF hit # 0
    THEN [st EXCEPT !.fs = link_event(@, event_file, st.fs.archive[event_file], bill_ids[hit],
                                      bill_to_session[bill_ids[hit]].session_id)]
    ELSE [st EXCEPT !.fs.archive = Del(@, event_file)]

\* one archived record in one pass: st is [fs, skipped]; the second pass reads
\* the record again from the archive and keeps no list of its own
link_pass(st, event_file, bill_ids, bill_to_session) ==
    LET hit == first_hit(bill_ids, bill_to_session) IN
    IF bill_ids = <<>> THEN st
    ELSE IF hit # 0
    THEN [st EXCEPT !.fs = link_event(@, event_file, st.fs.archive[event_file], bill_ids[hit],
                                      bill_to_session[bill_ids[hit]].session_id)]
    ELSE [st EXCEPT !.skipped = Append(@, <<event_file, bill_ids>>)]

\* sorted(folder.glob("*.json")): the names are <<prefix, digit, ".json">>, and
\* of two names of a catalogue the one that sorts later has the larger digit
list_json_files(archive) ==
    LET n == Cardinality(DOMAIN archive)
    IN CHOOSE files \in [1..n -> DOMAIN archive] :
        /\ Range(files) = DOMAIN archive
        /\ \A i, j \in 1..n : i < j => Val(files[i][2]) < Val(files[j][2])

RECURSIVE first_pass(_, _, _)
first_pass(st, files, bill_to_session) ==
    IF files = <<>> THEN st
    ELSE first_pass(
            link_pass(st, Head(files), extract_bill_ids_from_event(st.fs.archive[Head(files)]),
                      bill_to_session),
            Tail(files), bill_to_session)

\* a second pass that takes every record it is given for linked
second_pass_unlink(st, skipped, bill_to_session) ==
    [st EXCEPT !.fs.archive =
        [f \in DOMAIN @ \ {skipped[i][1] : i \in DOMAIN skipped} |-> @[f]]]

RECURSIVE second_pass(_, _, _)
second_pass(st, skipped, bill_to_session) ==
    IF skipped = <<>> THEN st
    ELSE second_pass(link_pass(st, Head(skipped)[1], Head(skipped)[2], bill_to_session),
                     Tail(skipped), bill_to_session)

\* load_session_mapping raises FileNotFoundError when sessions.json is absent
load_session_mapping_raises(fs) == fs.sessions = <<>>

link_events_to_bills_pipeline(fs) ==
    LET bill_to_session == load_bill_to_session_mapping(fs)
        fs0 == [fs EXCEPT !.bill_session_mapping = bill_to_session]
        p1 == first_pass([fs |-> fs0, skipped |-> <<>>], list_json_files(fs0.archive),
                         bill_to_session)
        rebuilt == load_bill_to_session_mapping(p1.fs)
    IN IF p1.skipped = <<>> THEN p1.fs
       ELSE second_pass([fs |-> [p1.fs EXCEPT !.bill_session_mapping = rebuilt],
                         skipped |-> <<>>],
                        p1.skipped, rebuilt).fs

\* ---------------------------------------- postprocessors/cleanup_placeholders.py
\* datetime.now().isoformat()
current_timestamp(now) == <<"local", now>>

load_orphan_tracking(fs) == fs.tracking

\* json.dump of the whole map over the tracking file
save_orphan_tracking(fs, orphan_tracking) == [fs EXCEPT !.tracking = orphan_tracking]

\* a reconciliation that lets a placeholder stand beside the bill record
placeholder_redundant_never(fs, bill_folder) == FALSE

\* metadata_file.exists()
placeholder_redundant(fs, bill_folder) == bill_folder \in DOMAIN fs.metadata

\* the loop body: st is [fs, orphan_tracking, stats]
cleanup_placeholder(st, bill_folder, now) ==
    LET bill_id == bill_folder[2]
        session_id == bill_folder[1]
        log_names == {k[2] : k \in {k \in DOMAIN st.fs.logs : k[1] = bill_folder}}
        vote_count == Cardinality({n \in log_names : contains(n, "vote")})
        event_count == Cardinality({n \in log_names :
                                      ~contains(n, "vote") /\ contains(n, "event")})
        found == [st EXCEPT !.stats.placeholders_found = @ + 1]
    IN IF placeholder_redundant(st.fs, bill_folder)
       THEN [found EXCEPT
                !.fs.placeholder = Del(@, bill_folder),
                !.stats.placeholders_deleted = @ + 1,
                !.stats.resolved_orphans =
                    IF bill_id \in DOMAIN st.orphan_tracking THEN @ + 1 ELSE @,
                !.orphan_tracking = Del(@, bill_id)]
       ELSE IF bill_id \in DOMAIN st.orphan_tracking
       THEN [found EXCEPT
                !.orphan_tracking[bill_id] =
                    [@ EXCEPT !.last_seen = current_timestamp(now),
                              !.occurrence_count = @ + 1,
                              !.vote_count = vote_count,
                              !.event_count = event_count]]
       ELSE [found EXCEPT
                !.orphan_tracking = Put(@, bill_id,
                    [first_seen |-> current_timestamp(now),
                     last_seen |-> current_timestamp(now),
                     occurrence_count |-> 1,
                     session |-> session_id,
                     vote_count |-> vote_count,
                     event_count |-> event_count,
                     path |-> bill_folder]),
                !.stats.new_orphans = @ + 1]

\* repo_root.rglob("**/bills/*/placeholder.json"): the placeholder files, in any
\* of the orders the directory scan can deliver them
rglob(fs) ==
    {files \in [1..Cardinality(DOMAIN fs.placeholder) -> DOMAIN fs.placeholder] :
        Range(files) = DOMAIN fs.placeholder}

RECURSIVE cleanup_loop(_, _, _)
cleanup_loop(st, placeholder_files, now) ==
    IF placeholder_files = <<>> THEN st
    ELSE cleanup_loop(cleanup_placeholder(st, Head(placeholder_files), now),
                      Tail(placeholder_files), now)

NoStats ==
    [placeholders_found |-> 0, placeholders_deleted |-> 0, orphans_found |-> 0,
     new_orphans |-> 0, resolved_orphans |-> 0]

\* [fs, stats]; placeholder_files is what rglob yields in this call
cleanup_placeholders(fs, now, placeholder_files) ==
    LET st == cleanup_loop([fs |-> fs, orphan_tracking |-> load_orphan_tracking(fs),
                            stats |-> NoStats],
                           placeholder_files, now)
    IN [fs |-> IF DOMAIN st.orphan_tracking # {}
               THEN save_orphan_tracking(st.fs, st.orphan_tracking)
               ELSE st.fs,
        stats |-> [st.stats EXCEPT !.orphans_found = Cardinality(DOMAIN st.orphan_tracking)]]

\* ------------------------------------------------------------------ state
VARIABLES
    fs,                 \* the output tree (git_repo_folder)
    pc,                 \* where main() is: "idle", "route", "link", "cleanup";
                        \* "aborted" when it has ended without returning
    input_folder,       \* the listing of openstates_data_folder in this run
    all_data,           \* the loaded records process_and_save has still to route
    latest_timestamps,  \* the in-memory ledger
    cleanup_stats,      \* what cleanup_placeholders returned last
    clock,              \* the wall clock, in whole seconds
    runs,               \* the number of runs started
    first_log_file_created, \* history: <<bill folder, action id>> -> the first stamp persisted
    merge_existing,     \* merge_actions: the persisted list E
    merge_incoming,     \* merge_actions: the scraped list I
    merge_result,       \* merge_actions: the list returned
    merge_pc            \* "args" before the call, "merged" or "found" after it

run_vars == <<fs, pc, input_folder, all_data, latest_timestamps, cleanup_stats, clock, runs,
              first_log_file_created>>

merge_vars == <<merge_existing, merge_incoming, merge_result, merge_pc>>

vars == <<run_vars, merge_vars>>

\* ------------------------------------------------- the pure merge functions

Action(description, date, classification, processing) ==
    [description |-> description, date |-> date, classification |-> classification,
     organization_id |-> <<"~", "classification", "lower">>, _processing |-> processing]

\* persisted actions carry _processing, in every state a merge can leave it
ExistingPool ==
    {Action(d[1], d[2], <<>>, {<<"log_file_created", get_current_timestamp(t)>>}) :
        d \in {<<<<"i">>, <<"iso", "1">>>>, <<<<"p", "|">>, <<"iso", "1">>>>,
               <<<<"i">>, <<"iso", "2">>>>},
        t \in {1, 2}}

\* scraped actions carry none; one differs from its persisted copy in a field
IncomingPool ==
    {Action(d[1], d[2], <<>>, {}) :
        d \in {<<<<"i">>, <<"iso", "1">>>>, <<<<"p", "|">>, <<"iso", "1">>>>,
               <<<<"i">>, <<"iso", "2">>>>}}
    \cup {Action(<<"i">>, <<"iso", "1">>, <<"passage">>, {})}

InitRun ==
    /\ fs = SeededTree
    /\ pc = "idle"
    /\ input_folder = <<>>
    /\ all_data = <<>>
    /\ latest_timestamps = get_default_timestamps
    /\ cleanup_stats = NoStats
    /\ clock = 0
    /\ runs = 0
    /\ first_log_file_created = <<>>

InitMerge ==
    /\ InitRun
    /\ merge_existing \in SeqsUpTo(ExistingPool, MaxLen)
    /\ merge_incoming \in SeqsUpTo(IncomingPool, MaxLen)
    /\ merge_result = <<>>
    /\ merge_pc = "args"

MergeCall ==
    /\ merge_pc = "args"
    /\ merge_result' = merge_actions(merge_existing, merge_incoming)
    /\ merge_pc' = "merged"
    /\ UNCHANGED <<merge_existing, merge_incoming, run_vars>>

NextMerge == MergeCall

SpecMerge == InitMerge /\ [][NextMerge]_vars

\* persisted actions for the identity functions: a description that ends in
\* the separator, two dates, and an action without a date
ExistingIdentityPool ==
    {Action(d[1], d[2], <<>>, {<<"log_file_created", get_current_timestamp(1)>>}) :
        d \in {<<<<"i">>, <<"iso", "1">>>>, <<<<"i", "|">>, <<"iso", "1">>>>,
               <<<<"i">>, <<"iso", "2">>>>, <<<<"i">>, <<>>>>}}

\* scraped actions: the same pairs without _processing, one of them also with
\* another classification, and a pair no persisted action has
IncomingIdentityPool ==
    {Action(d[1], d[2], <<>>, {}) :
        d \in {<<<<"i">>, <<"iso", "1">>>>, <<<<"i", "|">>, <<"iso", "1">>>>,
               <<<<"i">>, <<"iso", "2">>>>, <<<<"i", "|">>, <<>>>>}}
    \cup {Action(<<"i">>, <<"iso", "1">>, <<"passage">>, {})}

InitIdentity ==
    /\ InitRun
    /\ merge_existing \in SeqsUpTo(ExistingIdentityPool, MaxLen)
    /\ merge_incoming \in SeqsUpTo(IncomingIdentityPool, MaxLen)
    /\ merge_result = <<>>
    /\ merge_pc = "args"

FindNewCall ==
    /\ merge_pc = "args"
    /\ merge_result' = find_new_actions(merge_existing, merge_incoming)
    /\ merge_pc' = "found"
    /\ UNCHANGED <<merge_existing, merge_incoming, run_vars>>

NextIdentity == FindNewCall

SpecIdentity == InitIdentity /\ [][NextIdentity]_vars

\* ------------------------------------------------------------------ main.py
RECURSIVE process_and_save_from(_, _, _)
\* the loop of process_and_save over the loaded records: st is [fs, lt, raised];
\* the loop catches nothing, so a handler's exception ends it
process_and_save_from(st, data, now) ==
    IF data = <<>> THEN st
    ELSE LET r == process_record(st.fs, st.lt, Head(data)[1], Head(data)[2], now)
         IN IF r.result = "raise" THEN [fs |-> r.fs, lt |-> r.lt, raised |-> TRUE]
            ELSE process_and_save_from([fs |-> r.fs, lt |-> r.lt, raised |-> FALSE],
                                       Tail(data), now)

\* main() to the end of the loop of process_and_save; the API is asked only
\* when sessions.json is absent, and then answers as ApiAnswers allows
main_routed(tree, listing, now) ==
    LET lt == read_latest_timestamps(tree)
        ensured == ensure_session_mapping(tree, listing, CHOOSE a \in ApiAnswers : a # <<>>)
        loaded == load_json_files(ensured, listing, lt)
    IN process_and_save_from([fs |-> loaded.fs, lt |-> lt, raised |-> FALSE],
                             loaded.all_data, now)

\* main() from its start to the return of link_events_to_bills_pipeline, or to
\* the exception that ends it
main_linked(tree, listing, now) ==
    LET routed == main_routed(tree, listing, now)
        flushed == write_latest_timestamp_file(routed.fs, routed.lt)
    IN IF routed.raised THEN routed.fs
       ELSE IF load_session_mapping_raises(flushed) THEN flushed
       ELSE link_events_to_bills_pipeline(flushed)

\* one whole run of main() on a tree: the tree it leaves
main(tree, listing, now) ==
    LET linked == main_linked(tree, listing, now)
    IN IF main_routed(tree, listing, now).raised \/ load_session_mapping_raises(linked)
       THEN linked
       ELSE cleanup_placeholders(linked, now, CHOOSE files \in rglob(linked) : TRUE).fs

\* the log_file_created stamps metadata.json files hold, by <<bill folder, action id>>
persisted_stamps(tree) ==
    LET keys == UNION {{<<p, create_action_identifier(tree.metadata[p].actions[i])>> :
                          i \in DOMAIN tree.metadata[p].actions} : p \in DOMAIN tree.metadata}
        copy(k) == LET actions == tree.metadata[k[1]].actions
                   IN actions[Max({i \in DOMAIN actions :
                                      create_action_identifier(actions[i]) = k[2]})]
    IN [k \in keys |-> DictGet(copy(k)._processing, "log_file_created")]

\* --------------------------------------------------------- the input batches
\* the longest input listing of a run of the whole pipeline
MaxBatch == 2
\* the number of runs of the whole pipeline
MaxRuns == 2
\* the longest action list of a scraped bill, and the number of runs over bills
MaxActions == 2
MaxBillRuns == 3

LowerChamber == <<"~", "classification", "lower">>

Bill(identifier, session, actions) ==
    [identifier |-> identifier, legislative_session |-> session, actions |-> actions,
     _processing |-> {}]

VoteEvent(bill_identifier, session, start_date, result) ==
    [bill_identifier |-> bill_identifier, legislative_session |-> session,
     start_date |-> start_date, result |-> result, organization |-> LowerChamber]

Event(name, session, start_date, bill_identifier, related_bills) ==
    [name |-> name, legislative_session |-> session, start_date |-> start_date,
     bill_identifier |-> bill_identifier, related_bills |-> related_bills]

Introduced == Action(<<"I", ".">>, <<"iso", "1">>, <<>>, {})

Referred == Action(<<"r">>, <<"iso", "2">>, <<"referral-committee">>, {})

\* what the scraper can deliver to a run of the whole pipeline: two bills of two
\* sessions, a second file of the first bill with one more action, a vote on
\* the first bill, an event that names both bills and carries no session, and an
\* event of the first bill's session
Catalogue ==
    {<<<<"bill_", "5", ".json">>, Bill(<<"HR5">>, <<"s1">>, <<Introduced>>)>>,
     <<<<"bill_", "6", ".json">>, Bill(<<"HR6">>, <<"s2">>, <<Introduced>>)>>,
     <<<<"bill_", "4", ".json">>, Bill(<<"HR5">>, <<"s1">>, <<Introduced, Referred>>)>>,
     <<<<"vote_event_", "1", ".json">>,
       VoteEvent(<<"HR5">>, <<"s1">>, <<"iso", "1">>, <<"pass">>)>>,
     <<<<"event_", "1", ".json">>,
       Event(<<"n">>, None, <<"iso", "1", "T", "1">>, None, <<<<"HR5">>, <<"HR6">>>>)>>,
     <<<<"event_", "2", ".json">>,
       Event(<<"m">>, <<"s1">>, <<"iso", "2">>, <<"HR5">>, <<<<"HR5">>>>)>>}

\* a listing holds a file name once, in any order
Listings(files, n) ==
    {l \in SeqsUpTo(files, n) : \A i, j \in DOMAIN l : i # j => l[i][1] # l[j][1]}

\* the actions the scraper can report for the one bill of the bill runs: a
\* generic one and two passages of the same day in the same chamber
BillActionPool ==
    {Introduced,
     Action(<<"p">>, <<"iso", "2">>, <<"passage">>, {}),
     Action(<<"q">>, <<"iso", "2">>, <<"passage">>, {})}

BillListings ==
    {<<<<<<"bill_", "1", ".json">>, Bill(<<"HR1">>, <<"s1">>, actions)>>>> :
        actions \in SeqsUpTo(BillActionPool, MaxActions)}

\* ------------------------------------------------------------------ actions
Init ==
    /\ InitRun
    /\ merge_existing = <<>>
    /\ merge_incoming = <<>>
    /\ merge_result = <<>>
    /\ merge_pc = "args"

\* main(), to the end of load_json_files; the run before it has returned or
\* has ended in an exception
StartRun(listings, max_runs) ==
    /\ pc \in {"idle", "aborted"}
    /\ runs < max_runs
    /\ \E listing \in listings, fetched \in ApiAnswers :
        LET lt == read_latest_timestamps(fs)
            ensured == ensure_session_mapping(fs, listing, fetched)
            loaded == load_json_files(ensured, listing, lt)
        IN /\ input_folder' = listing
           /\ latest_timestamps' = lt
           /\ fs' = loaded.fs
           /\ all_data' = loaded.all_data
    /\ clock' = clock + 1
    /\ runs' = runs + 1
    /\ pc' = "route"
    /\ UNCHANGED <<cleanup_stats, first_log_file_created, merge_vars>>

\* process_and_save: one turn of its loop; an exception of the handler leaves
\* the loop, process_and_save and main(), and the process ends
ProcessRecord ==
    /\ pc = "route"
    /\ all_data # <<>>
    /\ LET r == process_record(fs, latest_timestamps, Head(all_data)[1], Head(all_data)[2],
                               clock)
           stamps == persisted_stamps(r.fs)
       IN /\ fs' = r.fs
          /\ latest_timestamps' = r.lt
          /\ first_log_file_created' =
                [k \in DOMAIN first_log_file_created \cup DOMAIN stamps |->
                    IF k \in DOMAIN first_log_file_created
                    THEN first_log_file_created[k] ELSE stamps[k]]
          /\ all_data' = IF r.result = "raise" THEN all_data ELSE Tail(all_data)
          /\ pc' = IF r.result = "raise" THEN "aborted" ELSE pc
    /\ UNCHANGED <<input_folder, cleanup_stats, clock, runs, merge_vars>>

\* process_and_save: write_latest_timestamp_file, after the loop
FlushLedger ==
    /\ pc = "route"
    /\ all_data = <<>>
    /\ fs' = write_latest_timestamp_file(fs, latest_timestamps)
    /\ pc' = "link"
    /\ UNCHANGED <<input_folder, all_data, latest_timestamps, cleanup_stats, clock, runs,
                   first_log_file_created, merge_vars>>

\* link_events_to_bills_pipeline; the exception of load_session_mapping ends
\* main() before anything is linked
LinkEvents ==
    /\ pc = "link"
    /\ fs' = IF load_session_mapping_raises(fs) THEN fs ELSE link_events_to_bills_pipeline(fs)
    /\ pc' = IF load_session_mapping_raises(fs) THEN "aborted" ELSE "cleanup"
    /\ UNCHANGED <<input_folder, all_data, latest_timestamps, cleanup_stats, clock, runs,
                   first_log_file_created, merge_vars>>

CleanupPlaceholders ==
    /\ pc = "cleanup"
    /\ \E placeholder_files \in rglob(fs) :
        LET r == cleanup_placeholders(fs, clock, placeholder_files)
        IN /\ fs' = r.fs
           /\ cleanup_stats' = r.stats
    /\ pc' = "idle"
    /\ UNCHANGED <<input_folder, all_data, latest_timestamps, clock, runs,
                   first_log_file_created, merge_vars>>

StartPipelineRun == StartRun(Listings(Catalogue, MaxBatch), MaxRuns)

StartBillRun == StartRun(BillListings, MaxBillRuns)

Next ==
    \/ StartPipelineRun
    \/ ProcessRecord
    \/ FlushLedger
    \/ LinkEvents
    \/ CleanupPlaceholders

Spec == Init /\ [][Next]_vars

NextBill ==
    \/ StartBillRun
    \/ ProcessRecord
    \/ FlushLedger
    \/ LinkEvents
    \/ CleanupPlaceholders

SpecBill == Init /\ [][NextBill]_vars

\* what the scraper can deliver about a bill number that two sessions use: a
\* vote on HR5 of each session and the bill record of each
OrphanCatalogue ==
    {<<<<"vote_event_", "1", ".json">>,
       VoteEvent(<<"HR5">>, <<"s1">>, <<"iso", "1">>, <<"pass">>)>>,
     <<<<"vote_event_", "2", ".json">>,
       VoteEvent(<<"HR5">>, <<"s2">>, <<"iso", "2">>, <<"pass">>)>>,
     <<<<"bill_", "1", ".json">>, Bill(<<"HR5">>, <<"s1">>, <<Introduced>>)>>,
     <<<<"bill_", "2", ".json">>, Bill(<<"HR5">>, <<"s2">>, <<Introduced>>)>>}

OrphanListings == Listings(OrphanCatalogue, MaxBatch)

StartOrphanRun == StartRun(OrphanListings, MaxRuns)

NextOrphan ==
    \/ StartOrphanRun
    \/ ProcessRecord
    \/ FlushLedger
    \/ LinkEvents
    \/ CleanupPlaceholders

SpecOrphan == Init /\ [][NextOrphan]_vars

\* records that lack a required field: a bill without identifier, a vote
\* without bill_identifier, and two hearings of the same name without
\* bill_identifier
ValidationCatalogue ==
    {<<<<"bill_", "3", ".json">>, Bill(None, <<"s1">>, <<Introduced>>)>>,
     <<<<"vote_event_", "3", ".json">>,
       VoteEvent(None, <<"s1">>, <<"iso", "1">>, <<"pass">>)>>,
     <<<<"event_", "3", ".json">>, Event(<<"n">>, <<"s1">>, <<"iso", "1">>, None, <<>>)>>,
     <<<<"event_", "4", ".json">>, Event(<<"n">>, <<"s1">>, <<"iso", "2">>, None, <<>>)>>}

StartValidationRun == StartRun(Listings(ValidationCatalogue, MaxBatch), MaxRuns)

NextValidation ==
    \/ StartValidationRun
    \/ ProcessRecord
    \/ FlushLedger
    \/ LinkEvents
    \/ CleanupPlaceholders

SpecValidation == Init /\ [][NextValidation]_vars

\* records of a session that sessions.json does not list: a bill, a vote on
\* it, and two hearings of the same name
SessionCatalogue ==
    {<<<<"bill_", "0", ".json">>, Bill(<<"HR1">>, <<"s9">>, <<Introduced>>)>>,
     <<<<"vote_event_", "0", ".json">>,
       VoteEvent(<<"HR1">>, <<"s9">>, <<"iso", "1">>, <<"pass">>)>>,
     <<<<"event_", "0", ".json">>,
       Event(<<"n">>, <<"s9">>, <<"iso", "1">>, <<"HR1">>, <<<<"HR1">>>>)>>,
     <<<<"event_", "5", ".json">>,
       Event(<<"n">>, <<"s9">>, <<"iso", "2">>, <<"HR1">>, <<<<"HR1">>>>)>>}

StartSessionRun == StartRun(Listings(SessionCatalogue, MaxBatch), MaxRuns)

NextSession ==
    \/ StartSessionRun
    \/ ProcessRecord
    \/ FlushLedger
    \/ LinkEvents
    \/ CleanupPlaceholders

SpecSession == Init /\ [][NextSession]_vars

\* records whose start_date the ledger cannot read: a vote and a hearing
\* without one, a vote and a hearing whose start_date is not an ISO date, and
\* a vote with a good one
DateCatalogue ==
    {<<<<"vote_event_", "1", ".json">>, VoteEvent(<<"HR5">>, <<"s1">>, None, <<"pass">>)>>,
     <<<<"vote_event_", "2", ".json">>,
       VoteEvent(<<"HR5">>, <<"s1">>, <<"bad">>, <<"pass">>)>>,
     <<<<"vote_event_", "3", ".json">>,
       VoteEvent(<<"HR5">>, <<"s1">>, <<"iso", "1">>, <<"pass">>)>>,
     <<<<"event_", "1", ".json">>, Event(<<"a">>, <<"s1">>, None, <<"HR5">>, <<>>)>>,
     <<<<"event_", "2", ".json">>, Event(<<"b">>, <<"s1">>, <<"bad">>, <<"HR5">>, <<>>)>>}

StartDateRun == StartRun(Listings(DateCatalogue, MaxBatch), MaxRuns)

NextDate ==
    \/ StartDateRun
    \/ ProcessRecord
    \/ FlushLedger
    \/ LinkEvents
    \/ CleanupPlaceholders

SpecDate == Init /\ [][NextDate]_vars

\* records that move the ledger: two votes and two hearings that are handled,
\* each pair with the later date in the file listed first or last, and a vote
\* of a later date still that the handler turns down for its missing
\* bill_identifier
LedgerCatalogue ==
    {<<<<"vote_event_", "1", ".json">>,
       VoteEvent(<<"HR5">>, <<"s1">>, <<"iso", "2">>, <<"pass">>)>>,
     <<<<"vote_event_", "2", ".json">>,
       VoteEvent(<<"HR5">>, <<"s1">>, <<"iso", "1", "T", "1">>, <<"pass">>)>>,
     <<<<"vote_event_", "3", ".json">>,
       VoteEvent(None, <<"s1">>, <<"iso", "3">>, <<"pass">>)>>,
     <<<<"event_", "1", ".json">>, Event(<<"a">>, <<"s1">>, <<"iso", "2">>, <<"HR5">>, <<>>)>>,
     <<<<"event_", "2", ".json">>, Event(<<"b">>, <<"s1">>, <<"iso", "1">>, <<"HR5">>, <<>>)>>}

StartLedgerRun == StartRun(Listings(LedgerCatalogue, MaxBatch), MaxRuns)

NextLedger ==
    \/ StartLedgerRun
    \/ ProcessRecord
    \/ FlushLedger
    \/ LinkEvents
    \/ CleanupPlaceholders

SpecLedger == Init /\ [][NextLedger]_vars

\* a vote whose organization names a classification with a "/" in it, so that
\* the name of its log file holds one, with a vote and the record of the same
\* bill and an event without session that names the bill
FailureCatalogue ==
    {<<<<"vote_event_", "1", ".json">>,
       [VoteEvent(<<"HR5">>, <<"s1">>, <<"iso", "2">>, <<"pass">>)
            EXCEPT !.organization = <<"~", "classification", "house/senate">>]>>,
     <<<<"vote_event_", "2", ".json">>,
       VoteEvent(<<"HR5">>, <<"s1">>, <<"iso", "1">>, <<"pass">>)>>,
     <<<<"bill_", "1", ".json">>, Bill(<<"HR5">>, <<"s1">>, <<Introduced>>)>>,
     <<<<"event_", "1", ".json">>,
       Event(<<"n">>, None, <<"iso", "1">>, None, <<<<"HR5">>>>)>>}

StartFailureRun == StartRun(Listings(FailureCatalogue, MaxBatch), MaxRuns)

NextFailure ==
    \/ StartFailureRun
    \/ ProcessRecord
    \/ FlushLedger
    \/ LinkEvents
    \/ CleanupPlaceholders

SpecFailure == Init /\ [][NextFailure]_vars

\* a repository that has no sessions.json yet
InitMapping ==
    /\ fs = EmptyTree
    /\ pc = "idle"
    /\ input_folder = <<>>
    /\ all_data = <<>>
    /\ latest_timestamps = get_default_timestamps
    /\ cleanup_stats = NoStats
    /\ clock = 0
    /\ runs = 0
    /\ first_log_file_created = <<>>
    /\ merge_existing = <<>>
    /\ merge_incoming = <<>>
    /\ merge_result = <<>>
    /\ merge_pc = "args"

\* a bill, a vote on it and a hearing of it, and the jurisdiction record that
\* lists their session
MappingCatalogue ==
    {<<<<"bill_", "1", ".json">>, Bill(<<"HR5">>, <<"s1">>, <<Introduced>>)>>,
     <<<<"vote_event_", "1", ".json">>,
       VoteEvent(<<"HR5">>, <<"s1">>, <<"iso", "1">>, <<"pass">>)>>,
     <<<<"event_", "1", ".json">>,
       Event(<<"n">>, <<"s1">>, <<"iso", "1">>, <<"HR5">>, <<<<"HR5">>>>)>>,
     <<<<"jurisdiction_", "1", ".json">>, [legislative_sessions |-> {<<"s1">>}]>>}

StartMappingRun == StartRun(Listings(MappingCatalogue, MaxBatch), MaxRuns)

NextMapping ==
    \/ StartMappingRun
    \/ ProcessRecord
    \/ FlushLedger
    \/ LinkEvents
    \/ CleanupPlaceholders

SpecMapping == InitMapping /\ [][NextMapping]_vars

\* a bill, a vote on it, a hearing of it, and a hearing whose file name goes
\* on with the word bill_ after its prefix
RoutingCatalogue ==
    {<<<<"bill_", "1", ".json">>, Bill(<<"HR5">>, <<"s1">>, <<Introduced>>)>>,
     <<<<"vote_event_", "1", ".json">>,
       VoteEvent(<<"HR5">>, <<"s1">>, <<"iso", "1">>, <<"pass">>)>>,
     <<<<"event_", "1", ".json">>,
       Event(<<"n">>, <<"s1">>, <<"iso", "1">>, <<"HR5">>, <<<<"HR5">>>>)>>,
     <<<<"event_bill_", "2", ".json">>,
       Event(<<"m">>, <<"s1">>, <<"iso", "2">>, <<"HR5">>, <<<<"HR5">>>>)>>}

StartRoutingRun == StartRun(Listings(RoutingCatalogue, MaxBatch), MaxRuns)

NextRouting ==
    \/ StartRoutingRun
    \/ ProcessRecord
    \/ FlushLedger
    \/ LinkEvents
    \/ CleanupPlaceholders

SpecRouting == Init /\ [][NextRouting]_vars

\* the bill-level _processing a scraped bill file can carry: none, or a field
\* that another tool of the repository keeps there, with one of two values
ProcessingPool == {{}, {<<"text_extracted", <<"a">>>>}, {<<"text_extracted", <<"b">>>>}}

\* one bill, delivered with no, one or two actions and with any of those
\* _processing fields
ProcessingListings ==
    {<<<<<<"bill_", "1", ".json">>,
         [Bill(<<"HR1">>, <<"s1">>, actions) EXCEPT !._processing = processing]>>>> :
        actions \in {<<>>, <<Introduced>>, <<Introduced, Referred>>},
        processing \in ProcessingPool}

StartProcessingRun == StartRun(ProcessingListings, MaxBillRuns)

NextProcessing ==
    \/ StartProcessingRun
    \/ ProcessRecord
    \/ FlushLedger
    \/ LinkEvents
    \/ CleanupPlaceholders

SpecProcessing == Init /\ [][NextProcessing]_vars

\* two votes on one bill of the same day, result and chamber that differ in
\* their motion, a vote of another day, and two hearings of the same name and
\* start that differ in the bills they name
LogCatalogue ==
    {<<<<"vote_event_", "1", ".json">>,
       Put(VoteEvent(<<"HR5">>, <<"s1">>, <<"iso", "1">>, <<"pass">>), "motion_text", <<"p">>)>>,
     <<<<"vote_event_", "2", ".json">>,
       Put(VoteEvent(<<"HR5">>, <<"s1">>, <<"iso", "1">>, <<"pass">>), "motion_text", <<"q">>)>>,
     <<<<"vote_event_", "3", ".json">>,
       Put(VoteEvent(<<"HR5">>, <<"s1">>, <<"iso", "2">>, <<"pass">>), "motion_text", <<"p">>)>>,
     <<<<"event_", "1", ".json">>,
       Event(<<"n">>, <<"s1">>, <<"iso", "1">>, <<"HR5">>, <<<<"HR5">>>>)>>,
     <<<<"event_", "2", ".json">>,
       Event(<<"n">>, <<"s1">>, <<"iso", "1">>, <<"HR5">>, <<<<"HR6">>>>)>>}

StartLogRun == StartRun(Listings(LogCatalogue, MaxBatch), MaxRuns)

NextLog ==
    \/ StartLogRun
    \/ ProcessRecord
    \/ FlushLedger
    \/ LinkEvents
    \/ CleanupPlaceholders

SpecLog == Init /\ [][NextLog]_vars

\* a bill, a vote and a hearing of a session that sessions.json does not list
\* yet, a vote of a later day in a session it does list, and the jurisdiction
\* record that lists the new session as well
HealingCatalogue ==
    {<<<<"bill_", "1", ".json">>, Bill(<<"HR5">>, <<"s3">>, <<Introduced>>)>>,
     <<<<"vote_event_", "1", ".json">>,
       VoteEvent(<<"HR5">>, <<"s3">>, <<"iso", "1">>, <<"pass">>)>>,
     <<<<"event_", "1", ".json">>,
       Event(<<"n">>, <<"s3">>, <<"iso", "1">>, <<"HR5">>, <<<<"HR5">>>>)>>,
     <<<<"vote_event_", "2", ".json">>,
       VoteEvent(<<"HR6">>, <<"s1">>, <<"iso", "2">>, <<"pass">>)>>,
     <<<<"jurisdiction_", "1", ".json">>,
       [legislative_sessions |-> SESSION_MAPPING \cup {<<"s3">>}]>>}

StartHealingRun == StartRun(Listings(HealingCatalogue, MaxBatch), MaxRuns)

NextHealing ==
    \/ StartHealingRun
    \/ ProcessRecord
    \/ FlushLedger
    \/ LinkEvents
    \/ CleanupPlaceholders

SpecHealing == Init /\ [][NextHealing]_vars

\* the process is killed between two stages of main() or between two records
Crash ==
    /\ pc \in {"route", "link", "cleanup"}
    /\ pc' = "aborted"
    /\ UNCHANGED <<fs, input_folder, all_data, latest_timestamps, cleanup_stats, clock, runs,
                   first_log_file_created, merge_vars>>

\* the tree handle_bill has made when it has written the action logs and not
\* yet metadata.json
handle_bill_logs_written(tree, data, filename, now) ==
    [handle_bill(tree, data, filename, now).fs EXCEPT !.metadata = tree.metadata]

\* the process is killed inside handle_bill, between write_action_logs and the
\* write of metadata.json
CrashInHandleBill ==
    /\ pc = "route"
    /\ all_data # <<>>
    /\ process_record(fs, latest_timestamps, Head(all_data)[1], Head(all_data)[2],
                      clock).result = "bill"
    /\ fs' = handle_bill_logs_written(fs, Head(all_data)[2], Head(all_data)[1], clock)
    /\ pc' = "aborted"
    /\ UNCHANGED <<input_folder, all_data, latest_timestamps, cleanup_stats, clock, runs,
                   first_log_file_created, merge_vars>>

NextCrash ==
    \/ StartPipelineRun
    \/ ProcessRecord
    \/ FlushLedger
    \/ LinkEvents
    \/ CleanupPlaceholders
    \/ Crash
    \/ CrashInHandleBill

SpecCrash == Init /\ [][NextCrash]_vars

\* a bill, a vote on it, two hearings of it of two days, and a vote whose
\* date cannot be read
GatingCatalogue ==
    {<<<<"bill_", "1", ".json">>, Bill(<<"HR5">>, <<"s1">>, <<Introduced>>)>>,
     <<<<"vote_event_", "1", ".json">>,
       VoteEvent(<<"HR5">>, <<"s1">>, <<"iso", "1">>, <<"pass">>)>>,
     <<<<"vote_event_", "3", ".json">>,
       VoteEvent(<<"HR5">>, <<"s1">>, <<"bad">>, <<"pass">>)>>,
     <<<<"event_", "1", ".json">>,
       Event(<<"n">>, <<"s1">>, <<"iso", "1">>, <<"HR5">>, <<<<"HR5">>>>)>>,
     <<<<"event_", "2", ".json">>,
       Event(<<"m">>, <<"s1">>, <<"iso", "2">>, <<"HR5">>, <<<<"HR5">>>>)>>}

StartGatingRun == StartRun(Listings(GatingCatalogue, MaxBatch), MaxRuns)

NextGating ==
    \/ StartGatingRun
    \/ ProcessRecord
    \/ FlushLedger
    \/ LinkEvents
    \/ CleanupPlaceholders

SpecGating == Init /\ [][NextGating]_vars

\* a vote that is handled, and later records that are dropped: a
\* vote without bill_identifier, a vote of a session the mapping does not
\* have, a hearing without bill_identifier and a hearing without session
DropCatalogue ==
    {<<<<"vote_event_", "1", ".json">>,
       VoteEvent(<<"HR5">>, <<"s1">>, <<"iso", "1">>, <<"pass">>)>>,
     <<<<"vote_event_", "2", ".json">>, VoteEvent(None, <<"s1">>, <<"iso", "3">>, <<"pass">>)>>,
     <<<<"vote_event_", "3", ".json">>,
       VoteEvent(<<"HR5">>, <<"s9">>, <<"iso", "3">>, <<"pass">>)>>,
     <<<<"event_", "2", ".json">>, Event(<<"m">>, <<"s1">>, <<"iso", "3">>, None, <<>>)>>,
     <<<<"event_", "3", ".json">>, Event(<<"q">>, None, <<"iso", "3">>, <<"HR5">>, <<>>)>>}

StartDropRun == StartRun(Listings(DropCatalogue, MaxBatch), MaxRuns)

NextDrop ==
    \/ StartDropRun
    \/ ProcessRecord
    \/ FlushLedger
    \/ LinkEvents
    \/ CleanupPlaceholders

SpecDrop == Init /\ [][NextDrop]_vars

\* two bills of two sessions and two events without a session of their own:
\* one that refers to both bills, one that refers to the second bill only
SkipCatalogue ==
    {<<<<"bill_", "5", ".json">>, Bill(<<"HR5">>, <<"s1">>, <<Introduced>>)>>,
     <<<<"bill_", "6", ".json">>, Bill(<<"HR6">>, <<"s2">>, <<Introduced>>)>>,
     <<<<"event_", "1", ".json">>,
       Event(<<"n">>, None, <<"iso", "1", "T", "1">>, None, <<<<"HR5">>, <<"HR6">>>>)>>,
     <<<<"event_", "3", ".json">>,
       Event(<<"q">>, None, <<"iso", "2">>, None, <<<<"HR6">>>>)>>}

StartSkipRun == StartRun(Listings(SkipCatalogue, MaxBatch), MaxRuns)

NextSkip ==
    \/ StartSkipRun
    \/ ProcessRecord
    \/ FlushLedger
    \/ LinkEvents
    \/ CleanupPlaceholders

SpecSkip == Init /\ [][NextSkip]_vars

\* ----------------------------------------------------------------- claims
\* the identity the data model gives an action: the (description, date) pair
Identity(action) == <<action.description, action.date>>

IdentityIn(actions, action) ==
    \E j \in 1..Len(actions) : Identity(actions[j]) = Identity(action)

\* C1: merge_actions(E, I) is in I's order; an action of I whose (description,
\* date) identity occurs in E is replaced by a copy from E, _processing and all
\* other fields untouched; an action of I whose identity is not in E is kept.
MergeCorrect ==
    merge_pc = "merged" =>
        /\ Len(merge_result) = Len(merge_incoming)
        /\ \A i \in 1..Len(merge_incoming) :
            IF IdentityIn(merge_existing, merge_incoming[i])
            THEN /\ Identity(merge_result[i]) = Identity(merge_incoming[i])
                 /\ \E j \in 1..Len(merge_existing) : merge_result[i] = merge_existing[j]
            ELSE merge_result[i] = merge_incoming[i]

\* C1 witness: a merge that kept a stamped persisted copy, in second place,
\* after a new action taken from the incoming list
MergeCorrectWitness ==
    /\ merge_pc = "merged"
    /\ Len(merge_result) = 2
    /\ ~IdentityIn(merge_existing, merge_incoming[1])
    /\ IdentityIn(merge_existing, merge_incoming[2])
    /\ merge_result[1] = merge_incoming[1]
    /\ merge_result[2]._processing # {}
    /\ merge_result[2] # merge_incoming[2]
\* C2: once cleanup_placeholders has completed a run, no bill folder holds both
\* metadata.json and placeholder.json.
PlaceholderExclusive ==
    pc = "idle" => \A bill_folder \in DOMAIN fs.placeholder : bill_folder \notin DOMAIN fs.metadata

\* C2 witness: a finished run whose cleanup deleted the placeholder a vote had
\* put beside a bill record
PlaceholderExclusiveWitness ==
    /\ pc = "idle"
    /\ cleanup_stats.placeholders_deleted >= 1
    /\ \E k \in DOMAIN fs.logs : k[1] \in DOMAIN fs.metadata /\ contains(k[2], "vote")

WithoutTracking(tree) == [tree EXCEPT !.tracking = <<>>]

\* the input folder holds at most one file of a bill
OneFilePerBill(listing) ==
    \A i, j \in DOMAIN listing :
        (i # j /\ startswith(listing[i][1], "bill") /\ startswith(listing[j][1], "bill"))
        => Get(listing[i][2], "identifier") # Get(listing[j][2], "identifier")

NextIsBill ==
    /\ pc = "route"
    /\ all_data # <<>>
    /\ contains(Head(all_data)[1], "bill_")
    /\ Get(Head(all_data)[2], "identifier") # None
    /\ Get(Head(all_data)[2], "legislative_session") \in SESSION_MAPPING

\* C4: when handle_bill processes a bill, every incoming action whose identity
\* is not persisted has, afterwards, a log file of its own in logs/ (the file
\* of its name holds that action, not another one), and no log file is written
\* for an action whose identity is persisted.
NewActionsLoggedOnce ==
    [][NextIsBill =>
        LET data == Head(all_data)[2]
            log_folder == build_bill_path(session_or_default(data), data.identifier)
            existing == load_existing_metadata(fs, data)
            persisted == IF existing = <<>> THEN <<>> ELSE existing[1].actions
            written == {k \in DOMAIN fs'.logs : k \notin DOMAIN fs.logs \/ fs'.logs[k] # fs.logs[k]}
        IN /\ \A i \in DOMAIN data.actions :
                ~IdentityIn(persisted, data.actions[i]) =>
                    LET k == <<log_folder, action_log_filename(data.actions[i])>>
                    IN /\ k \in DOMAIN fs'.logs
                       /\ fs'.logs[k].action = data.actions[i]
           /\ \A k \in written : ~IdentityIn(persisted, fs'.logs[k].action)]_vars

\* C5 as stated: the stamp an action identity of a bill holds in metadata.json
\* is, at all times, the first one ever persisted for it.
StampNeverReplaced ==
    \A k \in DOMAIN persisted_stamps(fs) : persisted_stamps(fs)[k] = first_log_file_created[k]

\* the archived records the index of the linking pipeline resolves, as
\* [file, data, bill_ids, hit, session_id], on a tree the pipeline is about to read
Resolvable(tree) ==
    LET index == load_bill_to_session_mapping(tree)
    IN {[file |-> f, data |-> tree.archive[f],
         bill_ids |-> extract_bill_ids_from_event(tree.archive[f]),
         hit |-> first_hit(extract_bill_ids_from_event(tree.archive[f]), index),
         session_id |-> index[extract_bill_ids_from_event(tree.archive[f])[
                                first_hit(extract_bill_ids_from_event(tree.archive[f]), index)]
                             ].session_id] :
            f \in {f \in DOMAIN tree.archive :
                      first_hit(extract_bill_ids_from_event(tree.archive[f]), index) # 0}}

\* the event folders that hold a record
MaterializedIn(tree, data) == {k \in DOMAIN tree.events : tree.events[k] = data}

\* C6: an archived event whose referenced bill has a bill record when the
\* linking pipeline of a run starts is linked (materialized in an events folder)
\* and out of the archive when that pipeline returns or, at the latest, when
\* the pipeline of the next run returns.
LinkedWithinOneRun ==
    pc = "link" =>
        LET this_run == link_events_to_bills_pipeline(fs)
            cleaned == cleanup_placeholders(this_run, clock,
                                            CHOOSE files \in rglob(this_run) : TRUE).fs
            next_run == main_linked(cleaned, input_folder, clock + 1)
            Linked(tree, e) == e.file \notin DOMAIN tree.archive
                               /\ MaterializedIn(tree, e.data) # {}
        IN \A e \in Resolvable(fs) : Linked(this_run, e) \/ Linked(next_run, e)

UnresolvedKept ==
    [][pc = "link" =>
        \A f \in DOMAIN fs.archive :
            first_hit(extract_bill_ids_from_event(fs.archive[f]),
                      load_bill_to_session_mapping(fs)) = 0
            => /\ f \in DOMAIN fs'.archive
               /\ fs'.archive[f] = fs.archive[f]]_vars

\* C8 witness: the pipeline has returned and left an event that refers to
\* bills, none of them on record, in the archive
UnresolvedKeptWitness ==
    /\ pc = "cleanup"
    /\ \E f \in DOMAIN fs.archive :
        /\ extract_bill_ids_from_event(fs.archive[f]) # <<>>
        /\ first_hit(extract_bill_ids_from_event(fs.archive[f]),
                     load_bill_to_session_mapping(fs)) = 0

\* C9: when the linking pipeline resolves an archived event that refers to
\* several bills, the event is in exactly one events folder afterwards, the one
\* of the session of the first identifier with an index hit, and no bill folder
\* is touched.
FirstHitWins ==
    [][pc = "link" =>
        \A e \in Resolvable(fs) :
            Len(e.bill_ids) >= 2 =>
                /\ Cardinality(MaterializedIn(fs', e.data)) = 1
                /\ \A k \in MaterializedIn(fs', e.data) : k[1] = e.session_id
                /\ fs'.metadata = fs.metadata
                /\ fs'.placeholder = fs.placeholder
                /\ fs'.logs = fs.logs
                /\ fs'.dirs = fs.dirs]_vars

\* C10: when cleanup_placeholders finds the bill folder of a tracked orphan
\* with metadata.json, it deletes the placeholder, counts the bill as resolved,
\* and the tracking file it leaves no longer holds that bill identifier.
ResolvedOrphanForgotten ==
    [][pc = "cleanup" =>
        \A p \in DOMAIN fs.placeholder :
            (p \in DOMAIN fs.metadata /\ p[2] \in DOMAIN fs.tracking)
            => /\ p \notin DOMAIN fs'.placeholder
               /\ cleanup_stats'.resolved_orphans >= 1
               /\ p[2] \notin DOMAIN fs'.tracking]_vars

\* the bill folders that hold placeholder.json and no metadata.json
OrphanFolders(tree) == DOMAIN tree.placeholder \ DOMAIN tree.metadata

\* the trees the next run can leave, for each input it can be given and each
\* order in which cleanup can meet the placeholders
NextRunTrees(listings) ==
    UNION {LET linked == main_linked(fs, listing, clock + 1)
           IN {cleanup_placeholders(linked, clock + 1, files).fs : files \in rglob(linked)} :
              listing \in listings}

\* C11: for a bill folder that is an orphan at the end of a run and still one at
\* the end of the next run, the occurrence_count the tracking file holds for
\* the bill after the later run is not smaller than after the earlier one.
OrphanCountMonotone ==
    (pc = "idle" /\ runs >= 1) =>
        \A later \in NextRunTrees(OrphanListings) :
            \A p \in OrphanFolders(fs) \cap OrphanFolders(later) :
                p[2] \in DOMAIN fs.tracking =>
                    /\ p[2] \in DOMAIN later.tracking
                    /\ later.tracking[p[2]].occurrence_count
                            >= fs.tracking[p[2]].occurrence_count

\* C12: the first_seen of a tracking record is not replaced by the next run
\* while the bill folder stays an orphan, and in every record of the tracking
\* file first_seen is not later than last_seen.
FirstSeenKept ==
    /\ \A bill_id \in DOMAIN fs.tracking :
            fs.tracking[bill_id].first_seen[2] <= fs.tracking[bill_id].last_seen[2]
    /\ (pc = "idle" /\ runs >= 1) =>
        \A later \in NextRunTrees(OrphanListings) :
            \A p \in OrphanFolders(fs) \cap OrphanFolders(later) :
                p[2] \in DOMAIN fs.tracking =>
                    /\ p[2] \in DOMAIN later.tracking
                    /\ later.tracking[p[2]].first_seen = fs.tracking[p[2]].first_seen

\* the vote logs of a bill folder
VoteLogs(tree, bill_folder) ==
    {k \in DOMAIN tree.logs : k[1] = bill_folder /\ "bill_identifier" \in DOMAIN tree.logs[k]}

NextIsVote ==
    /\ pc = "route"
    /\ all_data # <<>>
    /\ ~contains(Head(all_data)[1], "bill_")
    /\ contains(Head(all_data)[1], "vote_event_")
    /\ Get(Head(all_data)[2], "bill_identifier") # None
    /\ Get(Head(all_data)[2], "legislative_session") \in SESSION_MAPPING

\* C14: when handle_vote_event handles a vote, it writes placeholder.json into
\* the folder of the bill only if the folder holds neither metadata.json nor
\* placeholder.json; it leaves an existing placeholder as it is and puts none
\* beside a bill record.
PlaceholderOnlyWhenNoRecord ==
    [][NextIsVote =>
        LET data == Head(all_data)[2]
            save_path == build_bill_path(session_or_default(data), data.bill_identifier)
        IN /\ save_path \in DOMAIN fs.placeholder
                => /\ save_path \in DOMAIN fs'.placeholder
                   /\ fs'.placeholder[save_path] = fs.placeholder[save_path]
           /\ save_path \in DOMAIN fs.metadata /\ save_path \notin DOMAIN fs.placeholder
                => save_path \notin DOMAIN fs'.placeholder
           /\ \A other \in (DOMAIN fs'.placeholder \ DOMAIN fs.placeholder) :
                other = save_path]_vars

\* the error category of the required field a record handed to its handler
\* lacks, "" when it lacks none
MissingFieldCategory(filename, data) ==
    IF contains(filename, "bill_")
    THEN IF Get(data, "identifier") = None
         THEN "from_handle_bill_missing_identifier" ELSE ""
    ELSE IF contains(filename, "vote_event_")
    THEN IF Get(data, "bill_identifier") = None
         THEN "from_handle_vote_event_missing_bill_identifier" ELSE ""
    ELSE IF contains(filename, "event_")
    THEN IF Get(data, "start_date") = None
         THEN "from_handle_event_missing_start_date"
         ELSE IF Get(data, "bill_identifier") = None
         THEN "from_handle_event_missing_bill_identifier" ELSE ""
    ELSE ""

\* the files under country:us/
Processed(tree) == <<tree.metadata, tree.placeholder, tree.logs, tree.events, tree.dirs>>

\* C15: when a record that lacks its required field is handed to its handler,
\* the handler returns False (the record is not counted), the record is then in
\* the error sink under the category of the missing field, and nothing under
\* country:us/ is written.
ValidationDrop ==
    [][(/\ pc = "route"
        /\ all_data # <<>>
        /\ Get(Head(all_data)[2], "legislative_session") \in SESSION_MAPPING
        /\ MissingFieldCategory(Head(all_data)[1], Head(all_data)[2]) # "")
       => LET filename == Head(all_data)[1]
              data == Head(all_data)[2]
              sink == <<MissingFieldCategory(filename, data), filename>>
          IN /\ process_record(fs, latest_timestamps, filename, data, clock).result = "none"
             /\ sink \in DOMAIN fs'.errors
             /\ \A x \in DOMAIN data : fs'.errors[sink][x] = data[x]
             /\ Processed(fs') = Processed(fs)]_vars

\* C16: when process_and_save meets a record whose legislative_session is not
\* in the session mapping, the record is then in the unknown_session error
\* category, and no handler has run: nothing under country:us/ is written and
\* the in-memory ledger is as it was.
UnknownSessionDrop ==
    [][(/\ pc = "route"
        /\ all_data # <<>>
        /\ Get(Head(all_data)[2], "legislative_session") # None
        /\ Get(Head(all_data)[2], "legislative_session") \notin SESSION_MAPPING)
       => LET sink == <<"unknown_session", Head(all_data)[1]>>
          IN /\ sink \in DOMAIN fs'.errors
             /\ fs'.errors[sink] = Head(all_data)[2]
             /\ Processed(fs') = Processed(fs)
             /\ latest_timestamps' = latest_timestamps]_vars

\* the start_date of a record is absent, or is not an ISO date or date-time
DateAbsentOrUnparseable(data) ==
    LET date == Get(data, "start_date")
    IN date = None \/ ~(IsIsoDate(date) \/ IsIsoDateTime(date))

\* C17: ledger rejection.  When a run loads its input folder, every vote or
\* event whose start_date is absent or unparseable is answered False by
\* is_newer_than_latest, is held by a file of the error sink afterwards, and
\* is not among the records handed to the handlers.
LedgerRejection ==
    [][pc = "idle" /\ pc' = "route" =>
        \A i \in DOMAIN input_folder' :
            LET filename == input_folder'[i][1]
                data == input_folder'[i][2]
                category == IF startswith(filename, "vote_event") THEN "vote_events"
                            ELSE "events"
                before == load_json_files(fs, SubSeq(input_folder', 1, i - 1),
                                          latest_timestamps').fs.errors
            IN (~startswith(filename, "bill") /\ DateAbsentOrUnparseable(data)) =>
                  /\ ~is_newer_than_latest(before, data, latest_timestamps'[category],
                                           category).newer
                  /\ \E k \in DOMAIN fs'.errors : fs'.errors[k] = data
                  /\ input_folder'[i] \notin Range(all_data')]_vars

\* the moment a record's start_date names, as <<day, time>>
RecordTime(data) ==
    LET date == data.start_date
    IN <<Val(date[2]), IF Len(date) = 4 THEN Val(date[4]) ELSE 0>>

\* the latest of a set of moments
Latest(moments) == CHOOSE d \in moments : \A e \in moments : ~Later(e, d)

LedgerCategories == {"vote_events", "events"}

\* the category a record's file name puts it in
CategoryOf(filename) ==
    IF startswith(filename, "vote_event") THEN "vote_events"
    ELSE IF startswith(filename, "event") THEN "events" ELSE "bills"

\* the records of a listing that a run starting from ledger value start hands
\* to a handler of the category and that the handler accepts
HandledIn(listing, category, start) ==
    {listing[i][2] : i \in {i \in DOMAIN listing :
        /\ CategoryOf(listing[i][1]) = category
        /\ ~DateAbsentOrUnparseable(listing[i][2])
        /\ Later(RecordTime(listing[i][2]), start)
        /\ Get(listing[i][2], "legislative_session") \in SESSION_MAPPING
        /\ Get(listing[i][2], "bill_identifier") # None}}

\* C18: ledger high-water mark.  Handling a vote (an event) successfully
\* leaves the in-memory value of its category at the later of its previous
\* value and the record's timestamp and leaves the other category alone; no
\* step of a run lowers an in-memory value and no step at all a persisted
\* one; and the flush persists, for each category, the latest of the
\* start-of-run value and the timestamps of the records handled in the run.
LedgerHighWaterMark ==
    [][/\ \A c \in LedgerCategories :
            /\ pc = "route" => ~Later(latest_timestamps[c], latest_timestamps'[c])
            /\ ~Later(read_latest_timestamps(fs)[c], read_latest_timestamps(fs')[c])
       /\ (pc = "route" /\ all_data # <<>>) =>
            LET filename == Head(all_data)[1]
                data == Head(all_data)[2]
                handled == process_record(fs, latest_timestamps, filename, data,
                                          clock).result
            IN handled # "raise" =>
                \A c \in LedgerCategories :
                    latest_timestamps'[c] =
                        IF handled # "none" /\ CategoryOf(filename) = c
                        THEN Latest({latest_timestamps[c], RecordTime(data)})
                        ELSE latest_timestamps[c]
       /\ (pc = "route" /\ all_data = <<>>) =>
            \A c \in LedgerCategories :
                LET start == read_latest_timestamps(fs)[c]
                IN read_latest_timestamps(fs')[c] =
                     Latest({start} \cup {RecordTime(data) :
                                            data \in HandledIn(input_folder, c, start)})]_vars

\* a run has handled a vote of an earlier date after a vote of a later one,
\* and the flush has persisted the later date
LedgerHighWaterWitness ==
    /\ pc = "link"
    /\ Len(input_folder) = 2
    /\ \A i \in 1..2 : CategoryOf(input_folder[i][1]) = "vote_events"
    /\ HandledIn(input_folder, "vote_events", <<0, 0>>) = {input_folder[1][2], input_folder[2][2]}
    /\ Later(RecordTime(input_folder[1][2]), RecordTime(input_folder[2][2]))
    /\ read_latest_timestamps(fs).vote_events = RecordTime(input_folder[1][2])

\* the content of latest_timestamp_seen.txt that holds the in-memory ledger lt
LedgerFile(lt) == {<<c, ledger_text(lt[c])>> : c \in LedgerCategories}

\* C19: the ledger file is written exactly once per run, after the last
\* record of the batch was routed.  No step changes the file but the one that
\* follows the last record, so neither a handler nor the linking pass nor the
\* cleanup writes it; and every run leaves the routing of its records by that
\* step, which writes the in-memory ledger to the file.
LedgerWrittenOncePerRun ==
    [][/\ fs'.ledger # fs.ledger => pc = "route" /\ all_data = <<>>
       /\ (pc = "route" /\ pc' # "route") =>
            all_data = <<>> /\ fs'.ledger = LedgerFile(latest_timestamps)]_vars

\* C20: failures are per-record.  Whatever happens to the record the loop of
\* process_and_save is handling, the run goes on with the records after it,
\* and so reaches the ledger flush, the linking and the cleanup.
FailuresArePerRecord ==
    [][(pc = "route" /\ all_data # <<>>) =>
            pc' = "route" /\ all_data' = Tail(all_data)]_vars

\* C21: the only run-fatal conditions are an unreadable input directory and
\* an unreadable session mapping file, and they end the run before any record
\* is processed or written.  So no exception ends a run that has loaded its
\* input: not while its records are routed, not in the linking, not in the
\* cleanup.
FatalOnlyBeforeRecords ==
    [][(pc' = "aborted" /\ pc # "aborted") => pc \notin {"route", "link", "cleanup"}]_vars

\* the files of the logs/ folder of a bill folder
FolderLogs(tree, bill_folder) ==
    [k \in {k \in DOMAIN tree.logs : k[1] = bill_folder} |-> tree.logs[k]]

\* the file is a bill record with as many actions as the record the tree holds
\* of the same bill
EqualCount(tree, file) ==
    LET bill_folder == build_bill_path(session_or_default(file[2]), Get(file[2], "identifier"))
    IN /\ startswith(file[1], "bill")
       /\ Get(file[2], "identifier") # None
       /\ bill_folder \in DOMAIN tree.metadata
       /\ Len(tree.metadata[bill_folder].actions) = Len(Get(file[2], "actions"))

\* C22: equal-count skip.  A bill file that has as many actions as the
\* persisted record of its bill is not among the records a run hands to the
\* handlers, and a run over that file leaves metadata.json and the logs/
\* folder of the bill as they were.
EqualCountSkip ==
    [][(pc # "route" /\ pc' = "route") =>
        \A i \in DOMAIN input_folder' :
            LET file == input_folder'[i]
                bill_folder == build_bill_path(session_or_default(file[2]),
                                               Get(file[2], "identifier"))
                after == main(fs, <<file>>, clock')
            IN EqualCount(fs, file) =>
                /\ file \notin Range(all_data')
                /\ after.metadata[bill_folder] = fs.metadata[bill_folder]
                /\ FolderLogs(after, bill_folder) = FolderLogs(fs, bill_folder)]_vars

\* a second run was given only a bill file with as many actions as the record
\* of an earlier run, and has handed nothing to the handlers
EqualCountSkipWitness ==
    /\ pc = "route"
    /\ runs = 2
    /\ Len(input_folder) = 1
    /\ all_data = <<>>
    /\ EqualCount(fs, input_folder[1])
    /\ DictGet(fs.metadata[build_bill_path(session_or_default(input_folder[1][2]),
                                           Get(input_folder[1][2], "identifier"))]._processing,
               "logs_latest_update") # get_current_timestamp(clock)

\* the folder of the bill that the record process_and_save is about to handle
\* belongs to
NextBillFolder ==
    build_bill_path(session_or_default(Head(all_data)[2]), Get(Head(all_data)[2], "identifier"))

\* C23: when handle_bill rewrites an existing bill, every bill-level
\* _processing field of the persisted record but logs_latest_update has its
\* persisted value in the new metadata.json, and logs_latest_update has the
\* time of the rewrite.
ProcessingPreserved ==
    [][(NextIsBill /\ NextBillFolder \in DOMAIN fs.metadata) =>
        LET old == fs.metadata[NextBillFolder]._processing
            new == fs'.metadata[NextBillFolder]._processing
        IN /\ \A k \in DictKeys(old) \ {"logs_latest_update"} :
                DictGet(new, k) = DictGet(old, k)
           /\ DictGet(new, "logs_latest_update") = get_current_timestamp(clock)]_vars

\* a run has rewritten a bill whose persisted record holds a field that the
\* incoming record holds with another value
ProcessingPreservedWitness ==
    /\ pc = "route"
    /\ all_data = <<>>
    /\ Len(input_folder) = 1
    /\ LET bill_folder == build_bill_path(<<"s1">>, <<"HR1">>)
       IN /\ bill_folder \in DOMAIN fs.metadata
          /\ DictGet(fs.metadata[bill_folder]._processing, "logs_latest_update")
                = get_current_timestamp(clock)
          /\ DictGet(fs.metadata[bill_folder]._processing, "text_extracted") = <<"a">>
          /\ DictGet(input_folder[1][2]._processing, "text_extracted") = <<"b">>

\* C24: after every call of handle_bill that returns True, the folder of the
\* bill holds metadata.json and the subfolders logs/ and files/, whether or
\* not the call found a new action.
BillFolderComplete ==
    [][NextIsBill =>
        LET r == handle_bill(fs, Head(all_data)[2], Head(all_data)[1], clock)
        IN r.ok => /\ NextBillFolder \in DOMAIN fs'.metadata
                   /\ NextBillFolder \in fs'.dirs]_vars

\* handle_bill has returned True for a bill without any action, in a folder
\* that no earlier record had made
BillFolderCompleteWitness ==
    /\ pc = "route"
    /\ runs = 1
    /\ all_data = <<>>
    /\ Len(input_folder) = 1
    /\ startswith(input_folder[1][1], "bill")
    /\ Get(input_folder[1][2], "actions") = <<>>
    /\ build_bill_path(<<"s1">>, <<"HR1">>) \in DOMAIN fs.metadata

\* the log files of the tree that hold a vote event
VoteLogFiles(tree) == {k \in DOMAIN tree.logs : "bill_identifier" \in DOMAIN tree.logs[k]}

\* C25: vote and event log entries are immutable.  No step changes or removes
\* the log file of a vote or the final file of an event once it is written,
\* so the file of a vote is still the one of that vote after any other vote
\* was handled.
LogEntriesImmutable ==
    [][/\ \A k \in VoteLogFiles(fs) : k \in DOMAIN fs'.logs /\ fs'.logs[k] = fs.logs[k]
       /\ \A k \in DOMAIN fs.events : k \in DOMAIN fs'.events /\ fs'.events[k] = fs.events[k]]_vars

\* C26: unknown-session self-healing.  When a run finds in its input a record
\* that an earlier run dropped to the unknown_session sink, and the session
\* mapping of the run lists the record's session, the run hands the record to
\* the handlers, whatever was processed since the record was dropped.
UnknownSessionHeals ==
    [][(pc # "route" /\ pc' = "route") =>
        \A i \in DOMAIN input_folder' :
            LET filename == input_folder'[i][1]
                data == input_folder'[i][2]
            IN (/\ <<"unknown_session", filename>> \in DOMAIN fs.errors
                /\ fs.errors[<<"unknown_session", filename>>] = data
                /\ Get(data, "legislative_session") \in session_mapping(fs'))
               => input_folder'[i] \in Range(all_data')]_vars

\* the bills, actions, logs, events, placeholders and orphan records of a
\* tree, without the times at which they were written
Content(tree) ==
    [bills |-> [p \in DOMAIN tree.metadata |->
                    [i \in DOMAIN tree.metadata[p].actions |->
                        [tree.metadata[p].actions[i] EXCEPT !._processing = {}]]],
     logs |-> tree.logs,
     events |-> tree.events,
     placeholders |-> tree.placeholder,
     orphans |-> DOMAIN tree.tracking]

\* C27: crash repair by re-application.  When the first run on a repository
\* is killed after any prefix of its writes and the pipeline is run again on
\* the same input, the tree has the bills, actions, logs, events, placeholders
\* and orphan records that one uninterrupted run on that input leaves.
CrashRepaired ==
    (pc = "aborted" /\ runs = 1) =>
        Content(main(fs, input_folder, clock + 1)) = Content(main(SeededTree, input_folder, clock))

\* an error file of the category holds the record
RecordedIn(errors, category, data) ==
    \E k \in DOMAIN errors :
        /\ k[1] = category
        /\ DOMAIN data \subseteq DOMAIN errors[k]
        /\ \A x \in DOMAIN data : errors[k][x] = data[x]

\* an error file of the category carries the name of the record
NameRecordedIn(errors, category, data) ==
    /\ Get(data, "name") # None
    /\ \E k \in DOMAIN errors : k[1] = category /\ Get(errors[k], "name") = Get(data, "name")

\* C28: error-file deduplication.  When a handler turns a record down for a
\* missing field, no error file is written or changed if a file of the
\* category carries the record's name already, and a record that no file of
\* the category holds yet is held by one afterwards.
ErrorFilesDeduplicated ==
    [][(/\ pc = "route"
        /\ all_data # <<>>
        /\ Get(Head(all_data)[2], "legislative_session") \in session_mapping(fs)
        /\ MissingFieldCategory(Head(all_data)[1], Head(all_data)[2]) # "")
       => LET data == Head(all_data)[2]
              category == MissingFieldCategory(Head(all_data)[1], data)
          IN /\ NameRecordedIn(fs.errors, category, data) => fs'.errors = fs.errors
             /\ ~RecordedIn(fs.errors, category, data) =>
                    RecordedIn(fs'.errors, category, data)]_vars

\* the stage a run passes to from each stage of main()
StageOrder == {<<"idle", "route">>, <<"route", "link">>, <<"link", "cleanup">>,
               <<"cleanup", "idle">>}

\* C29: run ordering.  A run passes from loading to routing, from routing by
\* the ledger flush to linking, from linking to the placeholder cleanup and
\* from the cleanup to its end, and in no other way, so each run that starts
\* runs the cleanup once before the next one starts; bill metadata and bill
\* logs are written while records are routed only, never by the cleanup or
\* after it; and the cleanup statistics are written by the cleanup only.
RunOrdering ==
    [][/\ pc' # pc => <<pc, pc'>> \in StageOrder
       /\ pc' = pc => pc = "route"
       /\ (fs'.metadata # fs.metadata \/ fs'.logs # fs.logs) => pc = "route" /\ pc' = "route"
       /\ fs'.ledger # fs.ledger => pc = "route" /\ pc' = "link"
       /\ cleanup_stats' # cleanup_stats => pc = "cleanup"]_vars

\* the handler of a file name's prefix
PrefixHandler(filename) ==
    IF startswith(filename, "bill_") THEN "bill"
    ELSE IF startswith(filename, "vote_event_") THEN "vote_event"
    ELSE IF startswith(filename, "event_") THEN "event"
    ELSE "none"

\* the tree and the ledger a handler leaves of a record
HandlerEffect(handler, tree, lt, filename, data, now) ==
    IF handler = "bill"
    THEN [fs |-> handle_bill(tree, data, filename, now).fs, lt |-> lt]
    ELSE IF handler = "vote_event"
    THEN [fs |-> handle_vote_event(tree, lt, data, filename).fs,
          lt |-> handle_vote_event(tree, lt, data, filename).lt]
    ELSE IF handler = "event"
    THEN [fs |-> handle_event(tree, lt, data, filename, None, None).fs,
          lt |-> handle_event(tree, lt, data, filename, None, None).lt]
    ELSE [fs |-> tree, lt |-> lt]

\* C30: routing by filename prefix.  A record of a known session that the
\* loop of process_and_save takes up is handled by the handler of its file
\* name's prefix and by no other: the step leaves the tree and the ledger
\* that this handler leaves; and the category load_json_files filtered the
\* file by is that handler's.
RoutedByPrefix ==
    [][(/\ pc = "route"
        /\ all_data # <<>>
        /\ Get(Head(all_data)[2], "legislative_session") \in session_mapping(fs))
       => LET filename == Head(all_data)[1]
              data == Head(all_data)[2]
              effect == HandlerEffect(PrefixHandler(filename), fs, latest_timestamps,
                                      filename, data, clock)
          IN /\ handler_of(filename) = PrefixHandler(filename)
             /\ load_category(filename) = handler_of(filename)
             /\ fs' = effect.fs
             /\ latest_timestamps' = effect.lt]_vars

\* the archived record is materialised under events/ of the session of a bill
\* it refers to
Linked(tree, data) ==
    LET index == load_bill_to_session_mapping(tree)
        bill_ids == extract_bill_ids_from_event(data)
    IN \E k \in DOMAIN tree.events :
        /\ tree.events[k] = data
        /\ \E i \in DOMAIN bill_ids :
            bill_ids[i] \in DOMAIN index /\ k[1] = index[bill_ids[i]].session_id

\* no element occurs twice in the sequence
NoRepeat(seq) == \A i, j \in DOMAIN seq : i # j => seq[i] # seq[j]

\* C31: bounded retry of the linking pipeline.  Pass 1 takes up each archived
\* record once, pass 2 takes up once each record that pass 1 skipped and no
\* other, the skipped records being those that refer to bills of which none is
\* in the index; and each archived record is, when the pipeline has ended,
\* either linked or still in the archive.
LinkingBounded ==
    [][(pc = "link" /\ ~load_session_mapping_raises(fs)) =>
        LET index == load_bill_to_session_mapping(fs)
            files == list_json_files(fs.archive)
            p1 == first_pass([fs |-> [fs EXCEPT !.bill_session_mapping = index],
                              skipped |-> <<>>], files, index)
        IN /\ NoRepeat(files)
           /\ NoRepeat(p1.skipped)
           /\ {p1.skipped[i][1] : i \in DOMAIN p1.skipped} =
                {f \in DOMAIN fs.archive :
                    /\ extract_bill_ids_from_event(fs.archive[f]) # <<>>
                    /\ first_hit(extract_bill_ids_from_event(fs.archive[f]), index) = 0}
           /\ \A f \in DOMAIN fs.archive :
                f \in DOMAIN fs'.archive \/ Linked(fs', fs.archive[f])]_vars

\* C32: action identity is the (description, date) pair.  Two actions get the
\* same identifier exactly when their descriptions are equal and their dates
\* are equal, whatever their other fields; and find_new_actions(E, I) is, in
\* I's order, the actions of I whose pair no action of E has.
IdentityIsPair ==
    /\ \A a, b \in Range(merge_existing) \cup Range(merge_incoming) :
        (create_action_identifier(a) = create_action_identifier(b)) <=>
            (Identity(a) = Identity(b))
    /\ merge_pc = "found" =>
        merge_result = SelectSeq(merge_incoming,
                                 LAMBDA action : ~IdentityIn(merge_existing, action))

\* C32 witness: of two incoming actions with one description the first, whose
\* pair a persisted action with other fields has, was left out and the second,
\* of another date, was returned
IdentityIsPairWitness ==
    /\ merge_pc = "found"
    /\ Len(merge_incoming) = 2
    /\ merge_incoming[1].description = merge_incoming[2].description
    /\ merge_incoming[1].date # merge_incoming[2].date
    /\ IdentityIn(merge_existing, merge_incoming[1])
    /\ merge_incoming[1] \notin Range(merge_existing)
    /\ merge_result = <<merge_incoming[2]>>

\* the listing read from its last file to its first
Reversed(listing) == [i \in DOMAIN listing |-> listing[Len(listing) + 1 - i]]

\* ledger values a run could have loaded instead
OtherLedgers ==
    {get_default_timestamps, [vote_events |-> <<5, 0>>, events |-> <<5, 0>>]}

\* the bill files among the records load_json_files passes on
BillsOf(records) == {r \in Range(records) : CategoryOf(r[1]) = "bills"}

\* C33: ledger gating.  When a run loads its input, a vote or an event is
\* among the records passed on exactly when it has a timestamp that is later
\* than the ledger value of its category as the run read it; reading the files
\* in the opposite order passes on the same records; and the bills passed on
\* are the same whatever the ledger holds.
LedgerGating ==
    [][(pc # "route" /\ pc' = "route") =>
        LET lt == read_latest_timestamps(fs)
        IN /\ \A i \in DOMAIN input_folder' :
                LET file == input_folder'[i]
                    category == CategoryOf(file[1])
                IN category \in LedgerCategories =>
                    (file \in Range(all_data') <=>
                        /\ ~DateAbsentOrUnparseable(file[2])
                        /\ Later(RecordTime(file[2]), lt[category]))
           /\ Range(load_json_files(fs, Reversed(input_folder'), lt).all_data) =
                Range(all_data')
           /\ \A other \in OtherLedgers :
                BillsOf(load_json_files(fs, input_folder', other).all_data) =
                    BillsOf(all_data')]_vars

\* C33 witness: a run that read a ledger an earlier run had advanced has passed
\* on the later of two events and held back the one that is not later
LedgerGatingWitness ==
    /\ pc = "route"
    /\ runs = 2
    /\ Len(input_folder) = 2
    /\ Len(all_data) = 1
    /\ \A i \in 1..2 : CategoryOf(input_folder[i][1]) = "events"
    /\ read_latest_timestamps(fs).events # get_default_timestamps.events
    /\ Later(RecordTime(all_data[1][2]), read_latest_timestamps(fs).events)

\* the folder of the bill an event record names, in the record's session
EventBillFolder(data) ==
    build_bill_path(session_or_default(data), Get(data, "bill_identifier"))

\* C34: placeholder for events.  When the main pass writes an event that names
\* a bill of which the tree holds no record, the bill's folder exists
\* afterwards and holds placeholder.json, as it does after a vote on such a
\* bill.
EventPlaceholder ==
    [][(/\ pc = "route"
        /\ all_data # <<>>
        /\ handler_of(Head(all_data)[1]) = "event"
        /\ fs'.events # fs.events
        /\ EventBillFolder(Head(all_data)[2]) \notin DOMAIN fs.metadata)
       => /\ EventBillFolder(Head(all_data)[2]) \in fs'.dirs
          /\ EventBillFolder(Head(all_data)[2]) \in DOMAIN fs'.placeholder]_vars

\* the vote or event is one the pipeline drops: it has no session or one the
\* mapping does not have, no date that can be read, or no bill identifier
DroppedRecord(tree, data) ==
    \/ Get(data, "legislative_session") \notin session_mapping(tree)
    \/ DateAbsentOrUnparseable(data)
    \/ Get(data, "bill_identifier") = None

\* the listing without its i-th file
Without(listing, i) == SubSeq(listing, 1, i - 1) \o SubSeq(listing, i + 1, Len(listing))

\* the in-memory ledger at the end of the routing of a run over the listing,
\* and the ledger file the flush then leaves
LedgerAfter(tree, listing, now) ==
    LET routed == main_routed(tree, listing, now)
    IN <<routed.lt, write_latest_timestamp_file(routed.fs, routed.lt).ledger>>

\* C35: a dropped record never advances the ledger.  The step that drops a
\* vote or an event leaves the in-memory ledger as it was, and a run ends its
\* routing with the in-memory ledger, and flushes the ledger file, that the
\* run over the input without the dropped record would.
DropsLeaveLedger ==
    [][/\ (/\ pc = "route"
           /\ all_data # <<>>
           /\ DroppedRecord(fs, Head(all_data)[2]))
          => latest_timestamps' = latest_timestamps
       /\ (pc # "route" /\ pc' = "route") =>
            \A i \in DOMAIN input_folder' :
                DroppedRecord(fs, input_folder'[i][2]) =>
                    LedgerAfter(fs, input_folder', clock') =
                        LedgerAfter(fs, Without(input_folder', i), clock')]_vars

\* C35 witness: a run has handled a vote and then dropped a vote of a later
\* day, and the ledger holds the day of the first
DropsLeaveLedgerWitness ==
    /\ pc = "route"
    /\ runs = 1
    /\ all_data = <<>>
    /\ Len(input_folder) = 2
    /\ ~DroppedRecord(fs, input_folder[1][2])
    /\ DroppedRecord(fs, input_folder[2][2])
    /\ CategoryOf(input_folder[2][1]) = "vote_events"
    /\ Later(RecordTime(input_folder[2][2]), RecordTime(input_folder[1][2]))
    /\ latest_timestamps.vote_events = RecordTime(input_folder[1][2])

\* a vote or event record with a date that can be read, a session of the
\* mapping and a bill identifier
WellFormed(tree, file) ==
    /\ CategoryOf(file[1]) \in LedgerCategories
    /\ ~DroppedRecord(tree, file[2])

\* the tree holds the record as a vote log or under events/
Persisted(tree, data) ==
    \/ \E k \in DOMAIN tree.logs : tree.logs[k] = data
    \/ \E k \in DOMAIN tree.events : tree.events[k] = data

\* C36: no well-formed record is lost to the ledger.  When a run has ended,
\* every well-formed vote and event of its input is persisted, also one whose
\* timestamp is not later than the ledger value earlier runs left.
NoRecordLost ==
    (pc = "idle" /\ runs > 0) =>
        \A i \in DOMAIN input_folder :
            WellFormed(fs, input_folder[i]) => Persisted(fs, input_folder[i][2])

\* the occurrence_count the tracking file holds for the bill, 0 when it holds
\* no record of it
CountOf(tree, bill_id) ==
    IF bill_id \in DOMAIN tree.tracking THEN tree.tracking[bill_id].occurrence_count ELSE 0

\* C37: for every bill identifier with an orphan folder, the cleanup of a run
\* leaves the tracking file with an occurrence_count one above the count it
\* held before the cleanup, 1 on the first sighting, also when folders of
\* several sessions carry the identifier.
OrphanCountByOne ==
    [][pc = "cleanup" =>
        \A p \in OrphanFolders(fs) :
            /\ p[2] \in DOMAIN fs'.tracking
            /\ CountOf(fs', p[2]) = CountOf(fs, p[2]) + 1]_vars

\* C38: after a complete run, every bill folder of the tree holds exactly one
\* of metadata.json and placeholder.json, and never neither.
BillFolderHoldsOne ==
    (pc = "idle" /\ runs > 0) =>
        \A bill_folder \in fs.dirs :
            (bill_folder \in DOMAIN fs.metadata) # (bill_folder \in DOMAIN fs.placeholder)

\* the tree and the skipped list pass 1 of the linking pipeline leaves
PassOne(tree) ==
    LET index == load_bill_to_session_mapping(tree)
    IN first_pass([fs |-> [tree EXCEPT !.bill_session_mapping = index], skipped |-> <<>>],
                  list_json_files(tree.archive), index)

\* C39: pass 1 of the linking pipeline writes no bill record, so the index
\* rebuilt before pass 2 is the index built at the start of the pipeline, and
\* pass 2 links none of the records pass 1 skipped: the archive the pipeline
\* leaves is the archive pass 1 left.
SecondPassLinksNothing ==
    [][(pc = "link" /\ ~load_session_mapping_raises(fs)) =>
        /\ PassOne(fs).fs.metadata = fs.metadata
        /\ load_bill_to_session_mapping(PassOne(fs).fs) = load_bill_to_session_mapping(fs)
        /\ fs'.archive = PassOne(fs).fs.archive]_vars

\* C39 witness: the pipeline has ended with an index that holds a bill and
\* with an archived record, skipped in both passes, that refers to other bills
SecondPassLinksNothingWitness ==
    /\ pc = "cleanup"
    /\ DOMAIN fs.metadata # {}
    /\ fs.bill_session_mapping = load_bill_to_session_mapping(fs)
    /\ \E f \in DOMAIN fs.archive :
        /\ extract_bill_ids_from_event(fs.archive[f]) # <<>>
        /\ first_hit(extract_bill_ids_from_event(fs.archive[f]),
                     load_bill_to_session_mapping(fs)) = 0
====
